---- MODULE Spec2Model ----
(***************************************************************************)
(* A model of the FIB path object of vnet/fib/fib_path.c: the path pool,   *)
(* construction, resolution, un-resolution, recursive-loop detection and   *)
(* the back-walk handler, together with the collaborators the path calls   *)
(* (adjacencies, via-entries, DPO reference counts, interface state).      *)
(* Every handler is one atomic step: the control plane is single-threaded  *)
(* and each call runs to completion.                                       *)
(***************************************************************************)
EXTENDS Integers, Sequences, FiniteSets, TLC

(* ------------------------------ bounds ---------------------------------- *)

\* number of slots of fib_path_pool
MaxPaths == 2
\* calls of fib_path_resolve on one path between its creation and its destroy
MaxResolves == 2
\* pool allocations (create, create_special, copy) in one behaviour
MaxAllocs == 2
\* reason flags carried by one back-walk
MaxReasons == 2
\* live paths at the moment a path-list creates a path from a route path or a
\* DPO; the other slots are filled by fib_path_copy
MaxFresh == 1

(* --------------------------- program constants -------------------------- *)

\* FIB_NODE_INDEX_INVALID, ADJ_INDEX_INVALID, INDEX_INVALID and ~0 as a u32
INVALID == -1

PathIds == 0 .. (MaxPaths - 1)

\* fib_path_type_t
PathTypes ==
    {"ATTACHED_NEXT_HOP", "ATTACHED", "RECURSIVE", "SPECIAL", "EXCLUSIVE",
     "DEAG", "RECEIVE"}

\* fib_path_oper_flags_t
OperFlags == {"RECURSIVE_LOOP", "RESOLVED", "DROP"}

\* fib_path_cfg_flags_t, the flags this file reads
CfgFlags == {"DROP", "LOCAL", "RESOLVE_HOST", "RESOLVE_ATTACHED"}

\* fib_node_bw_reason_flag_t, the flags this file reads
Reasons ==
    {"EVALUATE", "INTERFACE_UP", "INTERFACE_DOWN", "INTERFACE_DELETE",
     "ADJ_UPDATE", "ADJ_DOWN"}

\* fib_protocol_t of the paths the model creates
Protos == {"IP4", "MPLS"}

\* software interfaces: 1 is a broadcast interface, 2 is point-to-point
Interfaces == {1, 2}

\* next-hop addresses and labels; 0 is the all-zeros address
ZeroAddr == 0
Addrs == {0, 1}

\* FIB table indices
Tables == {0}

(* ----------------------------- conversions ------------------------------ *)

\* fib_proto_to_dpo: the DPO protocol of a FIB protocol
fib_proto_to_dpo(proto) ==
    CASE proto = "IP4" -> "DPO_IP4"
      [] proto = "IP6" -> "DPO_IP6"
      [] proto = "MPLS" -> "DPO_MPLS"

\* fib_proto_to_link: the link type of a FIB protocol
fib_proto_to_link(proto) ==
    CASE proto = "IP4" -> "LINK_IP4"
      [] proto = "IP6" -> "LINK_IP6"
      [] proto = "MPLS" -> "LINK_MPLS"

\* vnet_link_t, as far as the paths of this model use it
Links == {"LINK_IP4", "LINK_MPLS"}

ProtoNum(proto) ==
    CASE proto = "IP4" -> 0
      [] proto = "IP6" -> 1
      [] proto = "MPLS" -> 2

fib_path_proto_to_chain_type(proto) ==
    CASE proto = "IP4" -> "UNICAST_IP4"
      [] proto = "IP6" -> "UNICAST_IP6"
      [] proto = "MPLS" -> "MPLS_NON_EOS"

\* the forwarding chains a child asks a path for (MPLS_EOS is asserted out by
\* fib_path_contribute_forwarding, and ETHERNET by its recursive case)
ChainTypes == {"UNICAST_IP4", "MPLS_NON_EOS"}

\* fib_forw_chain_type_to_link_type
fib_forw_chain_type_to_link_type(fct) ==
    CASE fct = "UNICAST_IP4" -> "LINK_IP4"
      [] fct = "UNICAST_IP6" -> "LINK_IP6"
      [] fct = "MPLS_NON_EOS" -> "LINK_MPLS"
      [] fct = "MPLS_EOS" -> "LINK_MPLS"
      [] fct = "ETHERNET" -> "LINK_ETHERNET"

(* -------------------------------- DPOs ---------------------------------- *)

DPO_INVALID == [type |-> "INVALID", proto |-> "NONE", index |-> INVALID]

drop_dpo_get(dproto) == [type |-> "DROP", proto |-> dproto, index |-> 0]

dpo_id_is_valid(dpo) == dpo.type # "INVALID"

dpo_is_adj(dpo) == dpo.type \in {"ADJACENCY", "ADJACENCY_GLEAN"}

\* the DPO a client hands to fib_path_create_special for an exclusive path
UserDpo == [type |-> "USER", proto |-> "DPO_IP4", index |-> 0]

(* ----------------------------- adjacencies ------------------------------ *)

\* the index adj_nbr_add_or_lock returns for (proto, link, next-hop, interface)
AdjNbrIndex(proto, link, nh, sw_if) ==
    100 + (20 * ProtoNum(proto)) + (4 * nh) + (2 * (IF link = fib_proto_to_link(proto) THEN 0 ELSE 1)) + (sw_if - 1)

\* the index adj_glean_add_or_lock returns for (proto, interface)
AdjGleanIndex(proto, sw_if) == (10 * ProtoNum(proto)) + sw_if

AdjIds ==
    UNION {{AdjNbrIndex(pr, link, nh, i) : pr \in Protos, nh \in Addrs, i \in Interfaces} :
              link \in Links}
    \cup {AdjGleanIndex(pr, i) : pr \in Protos, i \in Interfaces}

\* the interface of an adjacency
AdjInterface(ai) ==
    IF ai >= 100 THEN ((ai - 100) % 2) + 1 ELSE ai % 10

(* ----------------------------- via-entries ------------------------------ *)

\* the index of the FIB entry of table tbl for the host prefix of nh
EntryIndex(tbl, proto, nh) == (100 * tbl) + (10 * ProtoNum(proto)) + nh

EntryIds == {EntryIndex(t, pr, nh) : t \in Tables, pr \in Protos, nh \in Addrs \ {ZeroAddr}}

\* fib_source_t: a smaller number is a better source; RR is the recursive-
\* resolution source a path pins its via-entry with
FIB_SOURCE_RR == 2

\* a source better than RR (the API, an interface, ...)
BetterSource == FIB_SOURCE_RR - 1

\* the prefix (protocol and next-hop) an entry index stands for
EntryPrefix(fei) == fei % 100

(* ------------------------------- state ---------------------------------- *)

VARIABLES
    pool,           \* fib_path_pool: slot -> fib_path_t (a freed slot keeps its bytes)
    pool_free,      \* slot -> whether the slot is on the pool's free list
    adj_locks,      \* adjacency -> its lock count
    adj_children,   \* adjacency -> its child list, a set of <<sibling token, path>>
    if_admin_up,    \* interface -> admin up
    fe_rr,          \* entry -> how many times source RR was added to it
    fe_api,         \* entry -> whether a source better than RR contributes to it
    fe_attached,    \* entry -> FIB_ENTRY_FLAG_ATTACHED
    fe_children,    \* entry -> its child list, a set of <<sibling token, path>>
    ex_locks,       \* the lock count of the client's exclusive DPO
    resolves,       \* slot -> calls of fib_path_resolve since the slot was allocated
    allocs          \* pool allocations so far

vars ==
    <<pool, pool_free, adj_locks, adj_children, if_admin_up, fe_rr, fe_api,
      fe_attached, fe_children, ex_locks, resolves, allocs>>

\* The whole state as one value, so that a handler is a function from the
\* state before the call to the state after it.  lbm, walked, seen, bad and
\* asserted are the call's outputs: the paths
\* load_balance_map_path_state_change was called for, whether
\* fib_path_list_back_walk was called, the path as it was when
\* fib_path_list_back_walk was called, whether an adjacency or entry call
\* was made on something that is not there, and whether the call passed an
\* ASSERT(0).  An image with assertions stops at the ASSERT(0); the rest of
\* the result is what an image without them goes on to do.
World ==
    [pool |-> pool, free |-> pool_free, adj_locks |-> adj_locks,
     adj_children |-> adj_children, admin_up |-> if_admin_up, fe_rr |-> fe_rr,
     fe_api |-> fe_api, fe_attached |-> fe_attached, fe_children |-> fe_children,
     ex_locks |-> ex_locks, resolves |-> resolves, allocs |-> allocs,
     lbm |-> {}, walked |-> FALSE, seen |-> <<>>, bad |-> FALSE,
     asserted |-> FALSE]

\* a slot after memset(path, 0, sizeof(*path))
ZeroPath ==
    [fp_pl_index |-> 0, fp_cfg_flags |-> {}, fp_type |-> "ATTACHED_NEXT_HOP",
     fp_nh_proto |-> "IP4", fp_weight |-> 0, fp_nh |-> ZeroAddr,
     fp_interface |-> 0, fp_tbl_id |-> 0, fp_ex_dpo |-> DPO_INVALID,
     fp_oper_flags |-> {}, fp_via_fib |-> 0, fp_dpo |-> DPO_INVALID,
     fp_sibling |-> 0]

(* ------------------------ interface state oracle ------------------------ *)

vnet_sw_interface_is_admin_up(w, sw_if) == w.admin_up[sw_if]

vnet_sw_interface_is_p2p(sw_if) == sw_if = 2

(* --------------------- adjacency layer (collaborator) ------------------- *)

\* the smallest token not in use in a child list
NextToken(children) ==
    CHOOSE t \in 0 .. Cardinality(children) :
        /\ \A c \in children : c[1] # t
        /\ \A u \in 0 .. (t - 1) : \E c \in children : c[1] = u

adj_lock(w, ai) ==
    IF ai \in AdjIds
    THEN [w EXCEPT !.adj_locks[ai] = @ + 1]
    ELSE [w EXCEPT !.bad = TRUE]

adj_unlock(w, ai) ==
    IF ai \in AdjIds /\ w.adj_locks[ai] > 0
    THEN [w EXCEPT !.adj_locks[ai] = @ - 1]
    ELSE [w EXCEPT !.bad = TRUE]

\* adj_nbr_add_or_lock: find or create the neighbour adjacency and lock it
adj_nbr_add_or_lock(w, proto, link, nh, sw_if) ==
    [w |-> adj_lock(w, AdjNbrIndex(proto, link, nh, sw_if)),
     ai |-> AdjNbrIndex(proto, link, nh, sw_if)]

\* adj_glean_add_or_lock: find or create the glean adjacency and lock it
adj_glean_add_or_lock(w, proto, sw_if) ==
    [w |-> adj_lock(w, AdjGleanIndex(proto, sw_if)),
     ai |-> AdjGleanIndex(proto, sw_if)]

\* adj_child_add: the path becomes a child; the token names its place
adj_child_add(w, ai, pi) ==
    IF ai \in AdjIds
    THEN [w |-> [w EXCEPT !.adj_children[ai] = @ \cup {<<NextToken(@), pi>>}],
          token |-> NextToken(w.adj_children[ai])]
    ELSE [w |-> [w EXCEPT !.bad = TRUE], token |-> 0]

adj_child_remove(w, ai, token) ==
    IF ai \in AdjIds /\ (\E c \in w.adj_children[ai] : c[1] = token)
    THEN [w EXCEPT !.adj_children[ai] = {c \in @ : c[1] # token}]
    ELSE [w EXCEPT !.bad = TRUE]

(* --------------------------- DPO (collaborator) ------------------------- *)

\* dpo_lock / dpo_unlock: a DPO holds a reference on the object it names
dpo_lock(w, dpo) ==
    IF dpo_is_adj(dpo) THEN adj_lock(w, dpo.index)
    ELSE IF dpo.type = "USER" THEN [w EXCEPT !.ex_locks = @ + 1]
    ELSE w

dpo_unlock(w, dpo) ==
    IF dpo_is_adj(dpo) THEN adj_unlock(w, dpo.index)
    ELSE IF dpo.type = "USER" THEN [w EXCEPT !.ex_locks = @ - 1]
    ELSE w

\* dpo_set and dpo_copy onto a path's fp_dpo: lock the new, unlock the old
SetFpDpo(w, pi, dpo) ==
    [dpo_unlock(dpo_lock(w, dpo), w.pool[pi].fp_dpo) EXCEPT !.pool[pi].fp_dpo = dpo]

\* dpo_copy onto a path's exclusive.fp_ex_dpo
SetExDpo(w, pi, dpo) ==
    [dpo_unlock(dpo_lock(w, dpo), w.pool[pi].fp_ex_dpo) EXCEPT !.pool[pi].fp_ex_dpo = dpo]

(* ---------------------- FIB table and entry (collaborator) -------------- *)

\* fib_table_entry_special_add with source RR: the entry's index
fib_table_entry_special_add(w, tbl, proto, nh) ==
    [w |-> [w EXCEPT !.fe_rr[EntryIndex(tbl, proto, nh)] = @ + 1],
     fei |-> EntryIndex(tbl, proto, nh)]

\* fib_table_entry_special_remove of source RR from the prefix in table tbl;
\* an entry that loses its last source leaves the table, and its flags go
fib_table_entry_special_remove(w, tbl, pfx) ==
    IF ((100 * tbl) + pfx) \in EntryIds /\ w.fe_rr[(100 * tbl) + pfx] > 0
    THEN [w EXCEPT !.fe_rr[(100 * tbl) + pfx] = @ - 1,
                   !.fe_attached[(100 * tbl) + pfx] =
                       @ /\ (w.fe_rr[(100 * tbl) + pfx] > 1 \/ w.fe_api[(100 * tbl) + pfx])]
    ELSE [w EXCEPT !.bad = TRUE]

fib_entry_child_add(w, fei, pi) ==
    IF fei \in EntryIds
    THEN [w |-> [w EXCEPT !.fe_children[fei] = @ \cup {<<NextToken(@), pi>>}],
          token |-> NextToken(w.fe_children[fei])]
    ELSE [w |-> [w EXCEPT !.bad = TRUE], token |-> 0]

fib_entry_child_remove(w, fei, token) ==
    IF fei \in EntryIds /\ (\E c \in w.fe_children[fei] : c[1] = token)
    THEN [w EXCEPT !.fe_children[fei] = {c \in @ : c[1] # token}]
    ELSE [w EXCEPT !.bad = TRUE]

\* fib_entry_get_best_source
fib_entry_get_best_source(w, fei) ==
    IF w.fe_api[fei] THEN BetterSource ELSE FIB_SOURCE_RR

\* fib_entry_get_flags: the entry flags this file reads
fib_entry_get_flags(w, fei) ==
    IF w.fe_attached[fei] THEN {"ATTACHED"} ELSE {}

fib_forw_chain_type_to_dpo_proto(fct) ==
    CASE fct = "UNICAST_IP4" -> "DPO_IP4"
      [] fct = "UNICAST_IP6" -> "DPO_IP6"
      [] fct = "MPLS_NON_EOS" -> "DPO_MPLS"
      [] fct = "MPLS_EOS" -> "DPO_MPLS"
      [] fct = "ETHERNET" -> "DPO_ETHERNET"

\* fib_entry_contribute_forwarding: the entry's own load-balance when a
\* source better than RR contributes, else the one it inherits from its cover
fib_entry_contribute_forwarding(w, fei, fct) ==
    [type |-> "LOAD_BALANCE", proto |-> fib_forw_chain_type_to_dpo_proto(fct),
     index |-> IF w.fe_api[fei] THEN fei ELSE 0]

(* --------------------------- path predicates ---------------------------- *)

fib_path_is_permanent_drop(path) ==
    ("DROP" \in path.fp_cfg_flags) \/ ("DROP" \in path.fp_oper_flags)

fib_path_is_looped(path) == "RECURSIVE_LOOP" \in path.fp_oper_flags

fib_path_is_resolved(path) ==
    /\ dpo_id_is_valid(path.fp_dpo)
    /\ "RESOLVED" \in path.fp_oper_flags
    /\ ~fib_path_is_looped(path)
    /\ ~fib_path_is_permanent_drop(path)

SetOper(w, pi, flag) == [w EXCEPT !.pool[pi].fp_oper_flags = @ \cup {flag}]

ClearOper(w, pi, flag) == [w EXCEPT !.pool[pi].fp_oper_flags = @ \ {flag}]

(* ------------------------------ the pool -------------------------------- *)

\* pool_get: the slot an allocation returns, the lowest free one
pool_get(w) == CHOOSE pi \in PathIds : w.free[pi] /\ \A qi \in PathIds : w.free[qi] => pi <= qi

(* ---------------------------- construction ------------------------------ *)

fib_path_route_flags_to_cfg_flags(rpath) ==
    (IF "RESOLVE_VIA_HOST" \in rpath.frp_flags THEN {"RESOLVE_HOST"} ELSE {})
    \cup (IF "RESOLVE_VIA_ATTACHED" \in rpath.frp_flags THEN {"RESOLVE_ATTACHED"} ELSE {})

\* mutation of CreatedPath: the LOCAL flag makes a receive path of a route
\* path without an interface too
created_path_local_first(pl_index, nh_proto, flags, rpath) ==
    LET base == [ZeroPath EXCEPT
                    !.fp_pl_index = pl_index,
                    !.fp_nh_proto = nh_proto,
                    !.fp_via_fib = INVALID,
                    !.fp_weight = IF rpath.frp_weight = 0 THEN 1 ELSE rpath.frp_weight,
                    !.fp_cfg_flags = flags \cup fib_path_route_flags_to_cfg_flags(rpath)]
    IN  IF "LOCAL" \in flags
        THEN [base EXCEPT !.fp_type = "RECEIVE",
                          !.fp_interface = rpath.frp_sw_if_index,
                          !.fp_nh = rpath.frp_addr]
        ELSE IF rpath.frp_sw_if_index # INVALID
        THEN IF rpath.frp_addr = ZeroAddr
             THEN [base EXCEPT !.fp_type = "ATTACHED",
                               !.fp_interface = rpath.frp_sw_if_index]
             ELSE [base EXCEPT !.fp_type = "ATTACHED_NEXT_HOP",
                               !.fp_interface = rpath.frp_sw_if_index,
                               !.fp_nh = rpath.frp_addr]
        ELSE IF rpath.frp_addr = ZeroAddr
             THEN IF rpath.frp_fib_index = INVALID
                  THEN [base EXCEPT !.fp_type = "SPECIAL"]
                  ELSE [base EXCEPT !.fp_type = "DEAG",
                                    !.fp_tbl_id = rpath.frp_fib_index]
             ELSE [base EXCEPT !.fp_type = "RECURSIVE",
                               !.fp_nh = IF nh_proto = "MPLS"
                                         THEN rpath.frp_local_label
                                         ELSE rpath.frp_addr,
                               !.fp_tbl_id = rpath.frp_fib_index]

\* the type and the per-type data fib_path_create deduces from the route path
CreatedPath(pl_index, nh_proto, flags, rpath) ==
    LET base == [ZeroPath EXCEPT
                    !.fp_pl_index = pl_index,
                    !.fp_nh_proto = nh_proto,
                    !.fp_via_fib = INVALID,
                    !.fp_weight = IF rpath.frp_weight = 0 THEN 1 ELSE rpath.frp_weight,
                    !.fp_cfg_flags = flags \cup fib_path_route_flags_to_cfg_flags(rpath)]
    IN  IF rpath.frp_sw_if_index # INVALID
        THEN IF "LOCAL" \in flags
             THEN [base EXCEPT !.fp_type = "RECEIVE",
                               !.fp_interface = rpath.frp_sw_if_index,
                               !.fp_nh = rpath.frp_addr]
             ELSE IF rpath.frp_addr = ZeroAddr
                  THEN [base EXCEPT !.fp_type = "ATTACHED",
                                    !.fp_interface = rpath.frp_sw_if_index]
                  ELSE [base EXCEPT !.fp_type = "ATTACHED_NEXT_HOP",
                                    !.fp_interface = rpath.frp_sw_if_index,
                                    !.fp_nh = rpath.frp_addr]
        ELSE IF rpath.frp_addr = ZeroAddr
             THEN IF rpath.frp_fib_index = INVALID
                  THEN [base EXCEPT !.fp_type = "SPECIAL"]
                  ELSE [base EXCEPT !.fp_type = "DEAG",
                                    !.fp_tbl_id = rpath.frp_fib_index]
             ELSE [base EXCEPT !.fp_type = "RECURSIVE",
                               !.fp_nh = IF nh_proto = "MPLS"
                                         THEN rpath.frp_local_label
                                         ELSE rpath.frp_addr,
                               !.fp_tbl_id = rpath.frp_fib_index]

Allocated(w, pi, path) ==
    [w EXCEPT !.pool[pi] = path, !.free[pi] = FALSE, !.resolves[pi] = 0,
              !.allocs = @ + 1]

\* mutation of fib_path_create: the weight of the route path is stored as it
\* is given
create_weight_as_given(w, pl_index, nh_proto, flags, rpath) ==
    Allocated(w, pool_get(w),
              [CreatedPath(pl_index, nh_proto, flags, rpath) EXCEPT
                  !.fp_weight = rpath.frp_weight])

fib_path_create(w, pl_index, nh_proto, flags, rpath) ==
    Allocated(w, pool_get(w), CreatedPath(pl_index, nh_proto, flags, rpath))

\* mutation of fib_path_create_special: the LOCAL flag is tested before the
\* DROP flag
create_special_local_first(w, pl_index, nh_proto, flags, dpo) ==
    LET pi == pool_get(w)
        base == [ZeroPath EXCEPT
                    !.fp_pl_index = pl_index,
                    !.fp_weight = 1,
                    !.fp_nh_proto = nh_proto,
                    !.fp_via_fib = INVALID,
                    !.fp_cfg_flags = flags]
    IN  IF "LOCAL" \in flags
        THEN Allocated(w, pi, [base EXCEPT !.fp_type = "RECEIVE",
                                           !.fp_interface = INVALID])
        ELSE IF "DROP" \in flags
        THEN Allocated(w, pi, [base EXCEPT !.fp_type = "SPECIAL"])
        ELSE SetExDpo(Allocated(w, pi, [base EXCEPT !.fp_type = "EXCLUSIVE"]), pi, dpo)

fib_path_create_special(w, pl_index, nh_proto, flags, dpo) ==
    LET pi == pool_get(w)
        base == [ZeroPath EXCEPT
                    !.fp_pl_index = pl_index,
                    !.fp_weight = 1,
                    !.fp_nh_proto = nh_proto,
                    !.fp_via_fib = INVALID,
                    !.fp_cfg_flags = flags]
    IN  IF "DROP" \in flags
        THEN Allocated(w, pi, [base EXCEPT !.fp_type = "SPECIAL"])
        ELSE IF "LOCAL" \in flags
        \* attached.fp_interface and receive.fp_interface are the same word
        THEN Allocated(w, pi, [base EXCEPT !.fp_type = "RECEIVE",
                                           !.fp_interface = INVALID])
        ELSE SetExDpo(Allocated(w, pi, [base EXCEPT !.fp_type = "EXCLUSIVE"]), pi, dpo)

\* mutation of fib_path_copy: the oper-flags of the original are kept
copy_keeps_oper_flags(w, path_index, path_list_index) ==
    Allocated(w, pool_get(w),
              [w.pool[path_index] EXCEPT
                  !.fp_pl_index = path_list_index,
                  !.fp_via_fib = INVALID,
                  !.fp_dpo = DPO_INVALID])

\* mutation of fib_path_copy: the via-entry index of the original is kept
copy_keeps_via_fib(w, path_index, path_list_index) ==
    Allocated(w, pool_get(w),
              [w.pool[path_index] EXCEPT
                  !.fp_oper_flags = {},
                  !.fp_pl_index = path_list_index,
                  !.fp_dpo = DPO_INVALID])

fib_path_copy(w, path_index, path_list_index) ==
    Allocated(w, pool_get(w),
              [w.pool[path_index] EXCEPT
                  !.fp_oper_flags = {},
                  !.fp_pl_index = path_list_index,
                  !.fp_via_fib = INVALID,
                  !.fp_dpo = DPO_INVALID])

(* ----------------------------- resolution ------------------------------- *)

\* mutation of fib_path_attached_next_hop_get_adj: the next-hop address is
\* used on a point-to-point interface too
get_adj_by_next_hop(w, path, link) ==
    adj_nbr_add_or_lock(w, path.fp_nh_proto, link, path.fp_nh, path.fp_interface)

fib_path_attached_next_hop_get_adj(w, path, link) ==
    IF vnet_sw_interface_is_p2p(path.fp_interface)
    THEN adj_nbr_add_or_lock(w, path.fp_nh_proto, link, ZeroAddr, path.fp_interface)
    ELSE adj_nbr_add_or_lock(w, path.fp_nh_proto, link, path.fp_nh, path.fp_interface)

\* the tail shared by the attached kinds: become a child of the adjacency
\* that fp_dpo now names
BecomeAdjChild(w, pi) ==
    LET c == adj_child_add(w, w.pool[pi].fp_dpo.index, pi)
    IN  [c.w EXCEPT !.pool[pi].fp_sibling = c.token]

\* mutation of fib_path_attached_next_hop_set: the interface's admin state is
\* not looked at
attached_next_hop_set_ignores_admin(w, pi) ==
    LET path == w.pool[pi]
        a == fib_path_attached_next_hop_get_adj(w, path, fib_proto_to_link(path.fp_nh_proto))
        w2 == SetFpDpo(a.w, pi, [type |-> "ADJACENCY",
                                 proto |-> fib_proto_to_dpo(path.fp_nh_proto),
                                 index |-> a.ai])
    IN  BecomeAdjChild(w2, pi)

fib_path_attached_next_hop_set(w, pi) ==
    LET path == w.pool[pi]
        w1 == IF ~vnet_sw_interface_is_admin_up(w, path.fp_interface)
              THEN ClearOper(w, pi, "RESOLVED")
              ELSE w
        a == fib_path_attached_next_hop_get_adj(w1, path, fib_proto_to_link(path.fp_nh_proto))
        w2 == SetFpDpo(a.w, pi, [type |-> "ADJACENCY",
                                 proto |-> fib_proto_to_dpo(path.fp_nh_proto),
                                 index |-> a.ai])
    IN  BecomeAdjChild(w2, pi)

\* mutation of fib_path_recursive_adj_update: RESOLVE_HOST is taken to be
\* unmet only by a source worse than RR
recursive_adj_update_strict_rr(w, pi, fct) ==
    LET path == w.pool[pi]
        via_dpo == fib_entry_contribute_forwarding(w, path.fp_via_fib, fct)
        drop == drop_dpo_get(fib_proto_to_dpo(path.fp_nh_proto))
        w1 == SetOper(w, pi, "RESOLVED")
    IN  IF "RECURSIVE_LOOP" \in path.fp_oper_flags
        THEN [w |-> ClearOper(w1, pi, "RESOLVED"), dpo |-> drop]
        ELSE IF "RESOLVE_HOST" \in path.fp_cfg_flags
        THEN IF fib_entry_get_best_source(w, path.fp_via_fib) > FIB_SOURCE_RR
             THEN [w |-> [ClearOper(w1, pi, "RESOLVED") EXCEPT !.lbm = @ \cup {pi}],
                   dpo |-> drop]
             ELSE [w |-> w1, dpo |-> via_dpo]
        ELSE IF "RESOLVE_ATTACHED" \in path.fp_cfg_flags
        THEN IF "ATTACHED" \notin fib_entry_get_flags(w, path.fp_via_fib)
             THEN [w |-> [ClearOper(w1, pi, "RESOLVED") EXCEPT !.lbm = @ \cup {pi}],
                   dpo |-> drop]
             ELSE [w |-> w1, dpo |-> via_dpo]
        ELSE [w |-> w1, dpo |-> via_dpo]

\* mutation of fib_path_recursive_adj_update: RESOLVE_ATTACHED is not checked
\* against the via-entry's flags
recursive_adj_update_any_cover(w, pi, fct) ==
    LET path == w.pool[pi]
        via_dpo == fib_entry_contribute_forwarding(w, path.fp_via_fib, fct)
        drop == drop_dpo_get(fib_proto_to_dpo(path.fp_nh_proto))
        w1 == SetOper(w, pi, "RESOLVED")
    IN  IF "RECURSIVE_LOOP" \in path.fp_oper_flags
        THEN [w |-> ClearOper(w1, pi, "RESOLVED"), dpo |-> drop]
        ELSE IF "RESOLVE_HOST" \in path.fp_cfg_flags
        THEN IF fib_entry_get_best_source(w, path.fp_via_fib) >= FIB_SOURCE_RR
             THEN [w |-> [ClearOper(w1, pi, "RESOLVED") EXCEPT !.lbm = @ \cup {pi}],
                   dpo |-> drop]
             ELSE [w |-> w1, dpo |-> via_dpo]
        ELSE [w |-> w1, dpo |-> via_dpo]

\* fib_path_recursive_adj_update: the flags, the load-balance-map call and
\* the DPO it hands back
fib_path_recursive_adj_update(w, pi, fct) ==
    LET path == w.pool[pi]
        via_dpo == fib_entry_contribute_forwarding(w, path.fp_via_fib, fct)
        drop == drop_dpo_get(fib_proto_to_dpo(path.fp_nh_proto))
        w1 == SetOper(w, pi, "RESOLVED")
    IN  IF "RECURSIVE_LOOP" \in path.fp_oper_flags
        THEN [w |-> ClearOper(w1, pi, "RESOLVED"), dpo |-> drop]
        ELSE IF "RESOLVE_HOST" \in path.fp_cfg_flags
        THEN IF fib_entry_get_best_source(w, path.fp_via_fib) >= FIB_SOURCE_RR
             THEN [w |-> [ClearOper(w1, pi, "RESOLVED") EXCEPT !.lbm = @ \cup {pi}],
                   dpo |-> drop]
             ELSE [w |-> w1, dpo |-> via_dpo]
        ELSE IF "RESOLVE_ATTACHED" \in path.fp_cfg_flags
        THEN IF "ATTACHED" \notin fib_entry_get_flags(w, path.fp_via_fib)
             THEN [w |-> [ClearOper(w1, pi, "RESOLVED") EXCEPT !.lbm = @ \cup {pi}],
                   dpo |-> drop]
             ELSE [w |-> w1, dpo |-> via_dpo]
        ELSE [w |-> w1, dpo |-> via_dpo]

\* the update of the path's own fp_dpo, as resolve and the back-walk call it
RecursiveRestack(w, pi) ==
    LET r == fib_path_recursive_adj_update(
                 w, pi, fib_path_proto_to_chain_type(w.pool[pi].fp_nh_proto))
    IN  SetFpDpo(r.w, pi, r.dpo)

\* mutation of fib_path_unresolve_steps: the RR source is taken off the
\* table before the path leaves the via-entry's child list
unresolve_steps_source_first(w, pi) ==
    LET path == w.pool[pi]
        pfx == EntryPrefix(path.fp_via_fib)
        w1 == fib_table_entry_special_remove(w, path.fp_tbl_id, pfx)
        w2 == fib_entry_child_remove(w1, path.fp_via_fib, path.fp_sibling)
        w3 == [w2 EXCEPT !.pool[pi].fp_via_fib = INVALID]
    IN  <<w, w1, w2, w3>>

\* the Recursive branch of fib_path_unresolve for a valid fp_via_fib, one
\* state per statement: before it, after fib_entry_child_remove, after
\* fib_table_entry_special_remove, after fp_via_fib = INVALID
fib_path_unresolve_steps(w, pi) ==
    LET path == w.pool[pi]
        pfx == EntryPrefix(path.fp_via_fib)
        w1 == fib_entry_child_remove(w, path.fp_via_fib, path.fp_sibling)
        w2 == fib_table_entry_special_remove(w1, path.fp_tbl_id, pfx)
        w3 == [w2 EXCEPT !.pool[pi].fp_via_fib = INVALID]
    IN  <<w, w1, w2, w3>>

fib_path_unresolve(w, pi) ==
    LET path == w.pool[pi]
        w1 == CASE path.fp_type = "RECURSIVE" ->
                     IF path.fp_via_fib # INVALID
                     THEN [fib_table_entry_special_remove(
                               fib_entry_child_remove(w, path.fp_via_fib, path.fp_sibling),
                               path.fp_tbl_id, EntryPrefix(path.fp_via_fib))
                           EXCEPT !.pool[pi].fp_via_fib = INVALID]
                     ELSE w
                [] path.fp_type \in {"ATTACHED_NEXT_HOP", "ATTACHED"} ->
                     adj_unlock(adj_child_remove(w, path.fp_dpo.index, path.fp_sibling),
                                path.fp_dpo.index)
                [] path.fp_type = "EXCLUSIVE" ->
                     SetExDpo(w, pi, DPO_INVALID)
                [] OTHER -> w
    IN  IF fib_path_is_permanent_drop(path)
        THEN w
        ELSE ClearOper(SetFpDpo(w1, pi, DPO_INVALID), pi, "RESOLVED")

\* mutation of fib_path_destroy: the slot is freed without fib_path_unresolve
destroy_without_unresolve(w, pi) ==
    [w EXCEPT !.free[pi] = TRUE]

fib_path_destroy(w, pi) ==
    [fib_path_unresolve(w, pi) EXCEPT !.free[pi] = TRUE]

fib_path_resolve(w, pi) ==
    LET w0 == SetOper([w EXCEPT !.resolves[pi] = @ + 1], pi, "RESOLVED")
        path == w0.pool[pi]
        dproto == fib_proto_to_dpo(path.fp_nh_proto)
    IN  IF fib_path_is_permanent_drop(path)
        THEN ClearOper(SetFpDpo(w0, pi, drop_dpo_get(dproto)), pi, "RESOLVED")
        ELSE CASE path.fp_type = "ATTACHED_NEXT_HOP" ->
                    fib_path_attached_next_hop_set(w0, pi)
               [] path.fp_type = "ATTACHED" ->
                    LET w1 == IF ~vnet_sw_interface_is_admin_up(w0, path.fp_interface)
                              THEN ClearOper(w0, pi, "RESOLVED")
                              ELSE w0
                        w2 == IF vnet_sw_interface_is_p2p(path.fp_interface)
                              THEN LET a == adj_nbr_add_or_lock(
                                                w1, path.fp_nh_proto,
                                                fib_proto_to_link(path.fp_nh_proto),
                                                ZeroAddr, path.fp_interface)
                                   IN  SetFpDpo(a.w, pi, [type |-> "ADJACENCY",
                                                          proto |-> dproto,
                                                          index |-> a.ai])
                              ELSE LET a == adj_glean_add_or_lock(
                                                w1, path.fp_nh_proto, path.fp_interface)
                                   IN  SetFpDpo(a.w, pi, [type |-> "ADJACENCY_GLEAN",
                                                          proto |-> dproto,
                                                          index |-> a.ai])
                    IN  BecomeAdjChild(w2, pi)
               [] path.fp_type = "RECURSIVE" ->
                    LET e == fib_table_entry_special_add(
                                 w0, path.fp_tbl_id, path.fp_nh_proto, path.fp_nh)
                        w1 == [e.w EXCEPT !.pool[pi].fp_via_fib = e.fei]
                        c == fib_entry_child_add(w1, e.fei, pi)
                        w2 == [c.w EXCEPT !.pool[pi].fp_sibling = c.token]
                    IN  RecursiveRestack(w2, pi)
               [] path.fp_type = "SPECIAL" ->
                    SetFpDpo(w0, pi, drop_dpo_get(dproto))
               [] path.fp_type = "DEAG" ->
                    SetFpDpo(w0, pi, [type |-> "LOOKUP", proto |-> dproto,
                                      index |-> path.fp_tbl_id])
               [] path.fp_type = "RECEIVE" ->
                    SetFpDpo(w0, pi, [type |-> "RECEIVE", proto |-> dproto,
                                      index |-> (10 * path.fp_nh) + path.fp_interface + 1])
               [] path.fp_type = "EXCLUSIVE" ->
                    SetFpDpo(w0, pi, path.fp_ex_dpo)

(* ------------------------ recursive-loop detection ---------------------- *)

\* mutation of fib_path_recursive_loop_detect: the switch on fp_type is
\* missing
loop_detect_any_kind(w, pi, entry_indicies, via_looped) ==
    LET path == w.pool[pi]
    IN  IF fib_path_is_permanent_drop(path)
        THEN w
        ELSE IF path.fp_via_fib \in entry_indicies
             THEN SetFpDpo(SetOper(w, pi, "RECURSIVE_LOOP"), pi,
                           drop_dpo_get(fib_proto_to_dpo(path.fp_nh_proto)))
             ELSE IF via_looped
                  THEN SetOper(w, pi, "RECURSIVE_LOOP")
                  ELSE ClearOper(w, pi, "RECURSIVE_LOOP")

\* mutation of fib_path_recursive_loop_detect: a path that finds itself in a
\* loop lets go of its via-entry
loop_detect_unsubscribes(w, pi, entry_indicies, via_looped) ==
    LET path == w.pool[pi]
    IN  IF fib_path_is_permanent_drop(path)
        THEN w
        ELSE IF path.fp_type = "RECURSIVE"
        THEN IF path.fp_via_fib \in entry_indicies
             THEN SetFpDpo(SetOper(fib_path_unresolve(w, pi), pi, "RECURSIVE_LOOP"), pi,
                           drop_dpo_get(fib_proto_to_dpo(path.fp_nh_proto)))
             ELSE IF via_looped
                  THEN SetOper(w, pi, "RECURSIVE_LOOP")
                  ELSE ClearOper(w, pi, "RECURSIVE_LOOP")
        ELSE w

\* mutation of fib_path_recursive_loop_detect: a loop that the via-entry
\* reports puts the drop DPO in place as well
loop_detect_reported_sets_drop(w, pi, entry_indicies, via_looped) ==
    LET path == w.pool[pi]
    IN  IF fib_path_is_permanent_drop(path)
        THEN w
        ELSE IF path.fp_type = "RECURSIVE"
        THEN IF path.fp_via_fib \in entry_indicies \/ via_looped
             THEN SetFpDpo(SetOper(w, pi, "RECURSIVE_LOOP"), pi,
                           drop_dpo_get(fib_proto_to_dpo(path.fp_nh_proto)))
             ELSE ClearOper(w, pi, "RECURSIVE_LOOP")
        ELSE w

\* entry_indicies are the entries met on the walk so far; via_looped is what
\* fib_entry_recursive_loop_detect answers for the via-entry
fib_path_recursive_loop_detect(w, pi, entry_indicies, via_looped) ==
    LET path == w.pool[pi]
    IN  IF fib_path_is_permanent_drop(path)
        THEN w
        ELSE IF path.fp_type = "RECURSIVE"
        THEN IF path.fp_via_fib \in entry_indicies
             THEN SetFpDpo(SetOper(w, pi, "RECURSIVE_LOOP"), pi,
                           drop_dpo_get(fib_proto_to_dpo(path.fp_nh_proto)))
             ELSE IF via_looped
                  THEN SetOper(w, pi, "RECURSIVE_LOOP")
                  ELSE ClearOper(w, pi, "RECURSIVE_LOOP")
        ELSE w

\* what fib_path_recursive_loop_detect returns
LoopDetectReturn(w, pi, entry_indicies, via_looped) ==
    IF fib_path_is_permanent_drop(w.pool[pi])
    THEN FALSE
    ELSE fib_path_is_looped(
             fib_path_recursive_loop_detect(w, pi, entry_indicies, via_looped).pool[pi])

(* ------------------------------ back-walk ------------------------------- *)

\* mutation of the INTERFACE_UP block: no return for a path that is resolved
\* already
interface_up_always_propagates(st, pi, reason) ==
    IF st.done \/ "INTERFACE_UP" \notin reason THEN st
    ELSE [st EXCEPT !.w = SetOper(@, pi, "RESOLVED")]

\* One "if (reason & flag)" block of the handler: st.w is the state so far and
\* st.done says that an earlier block returned without reaching the
\* propagation to the path-list.
BwInterfaceUp(st, pi, reason) ==
    IF st.done \/ "INTERFACE_UP" \notin reason THEN st
    ELSE IF "RESOLVED" \in st.w.pool[pi].fp_oper_flags
         THEN [st EXCEPT !.done = TRUE]
         ELSE [st EXCEPT !.w = SetOper(@, pi, "RESOLVED")]

\* mutation of the INTERFACE_DOWN block: the path lets go of its adjacency as
\* it does when the interface is deleted
interface_down_unresolves(st, pi, reason) ==
    IF st.done \/ "INTERFACE_DOWN" \notin reason THEN st
    ELSE IF "RESOLVED" \notin st.w.pool[pi].fp_oper_flags
         THEN [st EXCEPT !.done = TRUE]
         ELSE [st EXCEPT !.w = fib_path_unresolve(@, pi)]

BwInterfaceDown(st, pi, reason) ==
    IF st.done \/ "INTERFACE_DOWN" \notin reason THEN st
    ELSE IF "RESOLVED" \notin st.w.pool[pi].fp_oper_flags
         THEN [st EXCEPT !.done = TRUE]
         ELSE [st EXCEPT !.w = ClearOper(@, pi, "RESOLVED")]

\* mutation of the INTERFACE_DELETE block: the DROP flag is set but the path
\* stays subscribed
interface_delete_keeps_adj(st, pi, reason) ==
    IF st.done \/ "INTERFACE_DELETE" \notin reason THEN st
    ELSE [st EXCEPT !.w = SetOper(@, pi, "DROP")]

BwInterfaceDelete(st, pi, reason) ==
    IF st.done \/ "INTERFACE_DELETE" \notin reason THEN st
    ELSE [st EXCEPT !.w = SetOper(fib_path_unresolve(@, pi), pi, "DROP")]

\* mutation of the ADJ_UPDATE block: RESOLVED is cleared when the interface is
\* not up
adj_update_clears_when_down(st, pi, reason) ==
    IF st.done \/ "ADJ_UPDATE" \notin reason THEN st
    ELSE LET path == st.w.pool[pi]
             if_is_up == vnet_sw_interface_is_admin_up(st.w, path.fp_interface)
             w1 == IF if_is_up
                   THEN SetOper(st.w, pi, "RESOLVED")
                   ELSE ClearOper(st.w, pi, "RESOLVED")
             a == fib_path_attached_next_hop_get_adj(
                      w1, path, fib_proto_to_link(path.fp_nh_proto))
             w2 == SetFpDpo(a.w, pi, [type |-> "ADJACENCY",
                                      proto |-> fib_proto_to_dpo(path.fp_nh_proto),
                                      index |-> a.ai])
             w3 == adj_unlock(w2, a.ai)
         IN  [w |-> w3, done |-> ~if_is_up]

BwAdjUpdate(st, pi, reason) ==
    IF st.done \/ "ADJ_UPDATE" \notin reason THEN st
    ELSE LET path == st.w.pool[pi]
             if_is_up == vnet_sw_interface_is_admin_up(st.w, path.fp_interface)
             w1 == IF if_is_up THEN SetOper(st.w, pi, "RESOLVED") ELSE st.w
             a == fib_path_attached_next_hop_get_adj(
                      w1, path, fib_proto_to_link(path.fp_nh_proto))
             w2 == SetFpDpo(a.w, pi, [type |-> "ADJACENCY",
                                      proto |-> fib_proto_to_dpo(path.fp_nh_proto),
                                      index |-> a.ai])
             w3 == adj_unlock(w2, a.ai)
         IN  [w |-> w3, done |-> ~if_is_up]

BwAdjDown(st, pi, reason) ==
    IF st.done \/ "ADJ_DOWN" \notin reason THEN st
    ELSE IF "RESOLVED" \notin st.w.pool[pi].fp_oper_flags
         THEN [st EXCEPT !.done = TRUE]
         ELSE [st EXCEPT !.w = ClearOper(@, pi, "RESOLVED")]

\* case FIB_PATH_TYPE_ATTACHED_NEXT_HOP
BwAttachedNextHop(w, pi, reason) ==
    BwAdjDown(
        BwAdjUpdate(
            BwInterfaceDelete(
                BwInterfaceDown(
                    BwInterfaceUp([w |-> w, done |-> FALSE], pi, reason),
                    pi, reason),
                pi, reason),
            pi, reason),
        pi, reason)

\* mutation of the attached case: the interface blocks of the
\* attached-next-hop case, with their early returns
attached_stops_like_next_hop(w, pi, reason) ==
    BwInterfaceDelete(
        BwInterfaceDown(
            BwInterfaceUp([w |-> w, done |-> FALSE], pi, reason),
            pi, reason),
        pi, reason)

\* case FIB_PATH_TYPE_ATTACHED
BwAttached(w, pi, reason) ==
    LET w1 == IF "INTERFACE_UP" \in reason THEN SetOper(w, pi, "RESOLVED") ELSE w
        w2 == IF "INTERFACE_DOWN" \in reason THEN ClearOper(w1, pi, "RESOLVED") ELSE w1
        w3 == IF "INTERFACE_DELETE" \in reason
              THEN SetOper(fib_path_unresolve(w2, pi), pi, "DROP")
              ELSE w2
    IN  [w |-> w3, done |-> FALSE]

\* mutation of the recursive case: EVALUATE clears RECURSIVE_LOOP before the
\* restack
evaluate_clears_loop(w, pi, reason) ==
    [w |-> IF "EVALUATE" \in reason
           THEN RecursiveRestack(ClearOper(w, pi, "RECURSIVE_LOOP"), pi)
           ELSE w,
     done |-> ("ADJ_UPDATE" \in reason) \/ ("ADJ_DOWN" \in reason)]

\* mutation of the recursive case: a walk that carries EVALUATE does not
\* return before the propagation
recursive_evaluate_propagates(w, pi, reason) ==
    [w |-> IF "EVALUATE" \in reason THEN RecursiveRestack(w, pi) ELSE w,
     done |-> /\ "EVALUATE" \notin reason
              /\ ("ADJ_UPDATE" \in reason) \/ ("ADJ_DOWN" \in reason)]

\* case FIB_PATH_TYPE_RECURSIVE
BwRecursive(w, pi, reason) ==
    [w |-> IF "EVALUATE" \in reason THEN RecursiveRestack(w, pi) ELSE w,
     done |-> ("ADJ_UPDATE" \in reason) \/ ("ADJ_DOWN" \in reason)]

\* the kinds that have a parent and so can be walked
WalkedTypes == {"RECURSIVE", "ATTACHED_NEXT_HOP", "ATTACHED"}

\* fib_path_list_back_walk, the propagation to the path-list: the path-list
\* and its children see the path as it is at the call
fib_path_list_back_walk(w, pi) ==
    [w EXCEPT !.walked = TRUE, !.seen = <<w.pool[pi]>>]

\* mutation of fib_path_back_walk_notify: the walk is propagated to the
\* path-list before the switch on fp_type updates the path
back_walk_propagates_first(w, pi, reason) ==
    LET w0 == fib_path_list_back_walk(w, pi)
        st == CASE w.pool[pi].fp_type = "RECURSIVE" -> BwRecursive(w0, pi, reason)
                [] w.pool[pi].fp_type = "ATTACHED_NEXT_HOP" -> BwAttachedNextHop(w0, pi, reason)
                [] w.pool[pi].fp_type = "ATTACHED" -> BwAttached(w0, pi, reason)
    IN  IF st.done THEN [st.w EXCEPT !.walked = FALSE, !.seen = <<>>] ELSE st.w

\* case FIB_PATH_TYPE_DEAG, SPECIAL, RECEIVE and EXCLUSIVE: ASSERT(0), break
BwNoParent(w, pi, reason) ==
    [w |-> [w EXCEPT !.asserted = TRUE], done |-> FALSE]

\* mutation of fib_path_back_walk_notify: the case of the types without a
\* parent returns instead of breaking out of the switch
back_walk_returns_at_assert(w, pi, reason) ==
    LET st == CASE w.pool[pi].fp_type = "RECURSIVE" -> BwRecursive(w, pi, reason)
                [] w.pool[pi].fp_type = "ATTACHED_NEXT_HOP" -> BwAttachedNextHop(w, pi, reason)
                [] w.pool[pi].fp_type = "ATTACHED" -> BwAttached(w, pi, reason)
                [] OTHER -> [w |-> BwNoParent(w, pi, reason).w, done |-> TRUE]
    IN  IF st.done THEN st.w ELSE fib_path_list_back_walk(st.w, pi)

\* fib_path_back_walk_notify: the switch on fp_type, then the propagation
fib_path_back_walk_notify(w, pi, reason) ==
    LET st == CASE w.pool[pi].fp_type = "RECURSIVE" -> BwRecursive(w, pi, reason)
                [] w.pool[pi].fp_type = "ATTACHED_NEXT_HOP" -> BwAttachedNextHop(w, pi, reason)
                [] w.pool[pi].fp_type = "ATTACHED" -> BwAttached(w, pi, reason)
                [] OTHER -> BwNoParent(w, pi, reason)
    IN  IF st.done THEN st.w ELSE fib_path_list_back_walk(st.w, pi)

(* ----------------------------- contribution ----------------------------- *)

\* the lookup DPO lookup_dpo_add_or_lock_w_table_id makes for the default
\* MPLS table
MplsLookupDpo == [type |-> "LOOKUP", proto |-> "DPO_MPLS", index |-> 0]

\* mutation of fib_path_contribute_forwarding: every chain type is answered
\* with the stored fp_dpo
contribute_forwarding_stored_only(w, pi, fct) ==
    [w |-> dpo_lock(w, w.pool[pi].fp_dpo), dpo |-> w.pool[pi].fp_dpo]

\* fib_path_contribute_forwarding: the DPO handed to the caller, who holds a
\* reference on what it names
fib_path_contribute_forwarding(w, pi, fct) ==
    LET path == w.pool[pi]
    IN  IF fib_path_proto_to_chain_type(path.fp_nh_proto) = fct
        THEN [w |-> dpo_lock(w, path.fp_dpo), dpo |-> path.fp_dpo]
        ELSE CASE path.fp_type = "ATTACHED_NEXT_HOP" ->
                    LET a == fib_path_attached_next_hop_get_adj(
                                 w, path, fib_forw_chain_type_to_link_type(fct))
                        dpo == [type |-> "ADJACENCY",
                                proto |-> fib_forw_chain_type_to_dpo_proto(fct),
                                index |-> a.ai]
                    IN  [w |-> adj_unlock(dpo_lock(a.w, dpo), a.ai), dpo |-> dpo]
               [] path.fp_type = "RECURSIVE" ->
                    LET r == fib_path_recursive_adj_update(w, pi, fct)
                    IN  [w |-> dpo_lock(r.w, r.dpo), dpo |-> r.dpo]
               [] path.fp_type = "DEAG" ->
                    IF fct = "MPLS_NON_EOS"
                    THEN [w |-> w, dpo |-> MplsLookupDpo]
                    ELSE [w |-> dpo_lock(w, path.fp_dpo), dpo |-> path.fp_dpo]
               [] path.fp_type = "EXCLUSIVE" ->
                    [w |-> dpo_lock(w, path.fp_ex_dpo), dpo |-> path.fp_ex_dpo]
               [] OTHER ->
                    [w |-> [w EXCEPT !.bad = TRUE], dpo |-> DPO_INVALID]

\* fib_path_append_nh_for_multipath_hash: a resolved path adds its weight,
\* its index and the DPO it contributes to the caller's vector
fib_path_append_nh_for_multipath_hash(w, pi, fct, hash_key) ==
    IF fib_path_is_resolved(w.pool[pi])
    THEN LET r == fib_path_contribute_forwarding(w, pi, fct)
         IN  [w |-> r.w,
              hash_key |-> Append(hash_key,
                                  [path_weight |-> w.pool[pi].fp_weight,
                                   path_index |-> pi,
                                   path_dpo |-> r.dpo])]
    ELSE [w |-> w, hash_key |-> hash_key]

\* fib_urpf_list_append: one more interface on the caller's list
fib_urpf_list_append(urpf, sw_if_index) == Append(urpf, [itf |-> sw_if_index])

\* fib_entry_contribute_urpf: the via-entry adds what its own paths
\* contribute, here one item that names the entry
fib_entry_contribute_urpf(fei, urpf) == Append(urpf, [entry |-> fei])

\* mutation of fib_path_contribute_urpf: no test of fib_path_is_resolved
contribute_urpf_without_resolved_test(w, pi, urpf) ==
    LET path == w.pool[pi]
    IN  CASE path.fp_type \in {"ATTACHED_NEXT_HOP", "ATTACHED"} ->
                 [w |-> w, urpf |-> fib_urpf_list_append(urpf, path.fp_interface)]
          [] path.fp_type = "RECURSIVE" ->
                 [w |-> w, urpf |-> fib_entry_contribute_urpf(path.fp_via_fib, urpf)]
          [] path.fp_type \in {"EXCLUSIVE", "SPECIAL"} /\ dpo_is_adj(path.fp_dpo) ->
                 [w |-> w,
                  urpf |-> fib_urpf_list_append(urpf, AdjInterface(path.fp_dpo.index))]
          [] OTHER -> [w |-> w, urpf |-> urpf]

\* fib_path_contribute_urpf: a resolved path adds the interface it forwards
\* through to the caller's list; it writes nothing of the path
fib_path_contribute_urpf(w, pi, urpf) ==
    LET path == w.pool[pi]
    IN  IF ~fib_path_is_resolved(path)
        THEN [w |-> w, urpf |-> urpf]
        ELSE CASE path.fp_type \in {"ATTACHED_NEXT_HOP", "ATTACHED"} ->
                      [w |-> w, urpf |-> fib_urpf_list_append(urpf, path.fp_interface)]
               [] path.fp_type = "RECURSIVE" ->
                      [w |-> w, urpf |-> fib_entry_contribute_urpf(path.fp_via_fib, urpf)]
               [] path.fp_type \in {"EXCLUSIVE", "SPECIAL"} /\ dpo_is_adj(path.fp_dpo) ->
                      [w |-> w,
                       urpf |-> fib_urpf_list_append(urpf, AdjInterface(path.fp_dpo.index))]
               [] OTHER -> [w |-> w, urpf |-> urpf]

(* ------------------------ hashing and comparison ------------------------ *)

\* fib_path_type_t as a number
TypeNum(type) ==
    CASE type = "ATTACHED_NEXT_HOP" -> 0
      [] type = "ATTACHED" -> 1
      [] type = "RECURSIVE" -> 2
      [] type = "SPECIAL" -> 3
      [] type = "EXCLUSIVE" -> 4
      [] type = "DEAG" -> 5
      [] type = "RECEIVE" -> 6

\* fib_path_cfg_flags_t as a number
CfgBits(flags) ==
    (IF "DROP" \in flags THEN 1 ELSE 0)
    + (IF "RESOLVE_HOST" \in flags THEN 2 ELSE 0)
    + (IF "RESOLVE_ATTACHED" \in flags THEN 4 ELSE 0)
    + (IF "LOCAL" \in flags THEN 8 ELSE 0)

\* dpo_id_t as a number
DpoWord(dpo) ==
    CASE dpo.type = "INVALID" -> 0
      [] dpo.type = "USER" -> 1000 + dpo.index
      [] OTHER -> 2000 + dpo.index

\* the words between path_hash_start and path_hash_end: fp_cfg_flags,
\* fp_type, fp_nh_proto, fp_weight and the per-type union
HashedRegion(path) ==
    <<CfgBits(path.fp_cfg_flags), TypeNum(path.fp_type), ProtoNum(path.fp_nh_proto),
      path.fp_weight, path.fp_nh, path.fp_interface, path.fp_tbl_id,
      DpoWord(path.fp_ex_dpo)>>

\* hash_memory: a hash of the words, from the state given
RECURSIVE hash_memory(_, _)
hash_memory(words, state) ==
    IF words = <<>>
    THEN state
    ELSE hash_memory(Tail(words), ((31 * state) + Head(words)) % 65536)

\* mutation of fib_path_hash: fp_weight is left out of the hashed words
hash_without_weight(path) ==
    hash_memory(<<CfgBits(path.fp_cfg_flags), TypeNum(path.fp_type),
                  ProtoNum(path.fp_nh_proto), path.fp_nh, path.fp_interface,
                  path.fp_tbl_id, DpoWord(path.fp_ex_dpo)>>, 0)

\* fib_path_hash, of the path fib_path_get returns
fib_path_hash(path) == hash_memory(HashedRegion(path), 0)

\* ip46_address_cmp
ip46_address_cmp(a1, a2) == a1 - a2

\* vnet_sw_interface_compare
vnet_sw_interface_compare(sw_if1, sw_if2) == sw_if1 - sw_if2

\* fib_path_cmp_w_route_path, of the path fib_path_get returns: the weights
\* first, and the switch on the path's type only when they are equal
fib_path_cmp_w_route_path(path, rpath) ==
    IF path.fp_weight # rpath.frp_weight
    THEN path.fp_weight - rpath.frp_weight
    ELSE CASE path.fp_type = "ATTACHED_NEXT_HOP" ->
                  IF ip46_address_cmp(path.fp_nh, rpath.frp_addr) # 0
                  THEN ip46_address_cmp(path.fp_nh, rpath.frp_addr)
                  ELSE vnet_sw_interface_compare(path.fp_interface, rpath.frp_sw_if_index)
           [] path.fp_type = "ATTACHED" ->
                  vnet_sw_interface_compare(path.fp_interface, rpath.frp_sw_if_index)
           [] path.fp_type = "RECURSIVE" ->
                  LET res == IF path.fp_nh_proto = "MPLS"
                             THEN path.fp_nh - rpath.frp_local_label
                             ELSE ip46_address_cmp(path.fp_nh, rpath.frp_addr)
                  IN  IF res # 0 THEN res ELSE path.fp_tbl_id - rpath.frp_fib_index
           [] path.fp_type = "DEAG" -> path.fp_tbl_id - rpath.frp_fib_index
           [] OTHER -> 0

\* the switch on the first path's type, for two paths of one type or a second
\* path whose union is all zeros; the table ids are far from 2^31 apart, so
\* their u32 difference is returned as the int it is
CmpPerType(path1, path2) ==
    CASE path1.fp_type = "ATTACHED_NEXT_HOP" ->
             IF ip46_address_cmp(path1.fp_nh, path2.fp_nh) = 0
             THEN vnet_sw_interface_compare(path1.fp_interface, path2.fp_interface)
             ELSE ip46_address_cmp(path1.fp_nh, path2.fp_nh)
      [] path1.fp_type = "ATTACHED" ->
             vnet_sw_interface_compare(path1.fp_interface, path2.fp_interface)
      [] path1.fp_type = "RECURSIVE" ->
             IF ip46_address_cmp(path1.fp_nh, path2.fp_nh) = 0
             THEN path1.fp_tbl_id - path2.fp_tbl_id
             ELSE ip46_address_cmp(path1.fp_nh, path2.fp_nh)
      [] path1.fp_type = "DEAG" ->
             path1.fp_tbl_id - path2.fp_tbl_id
      [] OTHER -> 0

\* fib_path_cmp_i.  The difference of the types is assigned first and then
\* overwritten: by the difference of the protocols, or by the switch on the
\* first path's type, which has a case for every type.  When the types are
\* not the same the switch reads, of the second path, union members its type
\* does not own: zeros if that path is Special (its union is as memset left
\* it), otherwise whatever the overlay of the members gives, here overlay.
fib_path_cmp_i(path1, path2, overlay) ==
    IF path1.fp_nh_proto # path2.fp_nh_proto
    THEN ProtoNum(path1.fp_nh_proto) - ProtoNum(path2.fp_nh_proto)
    ELSE IF path1.fp_type \in {"SPECIAL", "RECEIVE", "EXCLUSIVE"}
    THEN 0
    ELSE IF path1.fp_type = path2.fp_type \/ path2.fp_type = "SPECIAL"
    THEN CmpPerType(path1, path2)
    ELSE overlay

\* fib_path_cmp_for_sort
fib_path_cmp_for_sort(w, pi1, pi2, overlay) ==
    fib_path_cmp_i(w.pool[pi1], w.pool[pi2], overlay)

\* fib_path_cmp
fib_path_cmp(w, pi1, pi2, overlay) ==
    fib_path_cmp_i(w.pool[pi1], w.pool[pi2], overlay)

(* -------------------------------- encode -------------------------------- *)

\* mutation of fib_path_encode: the interface is not filled in
encode_without_interface(path, unwritten) ==
    [frp_weight |-> path.fp_weight,
     frp_proto |-> path.fp_nh_proto,
     frp_sw_if_index |-> INVALID,
     frp_local_label |-> unwritten,
     frp_addr |-> IF path.fp_type \in {"RECEIVE", "ATTACHED_NEXT_HOP", "RECURSIVE"}
                  THEN path.fp_nh ELSE unwritten,
     dpo |-> path.fp_ex_dpo]

\* fib_path_encode: the route path it appends.  frp_local_label is never
\* assigned, and frp_addr only for some types: they hold what the new vector
\* element held, here unwritten.  For a recursive path frp_addr is
\* recursive.fp_nh.fp_ip, the bytes the label of an MPLS path lies in.
fib_path_encode(path, unwritten) ==
    [frp_weight |-> path.fp_weight,
     frp_proto |-> path.fp_nh_proto,
     frp_sw_if_index |-> IF path.fp_type \in {"RECEIVE", "ATTACHED", "ATTACHED_NEXT_HOP"}
                         THEN path.fp_interface ELSE INVALID,
     frp_local_label |-> unwritten,
     frp_addr |-> IF path.fp_type \in {"RECEIVE", "ATTACHED_NEXT_HOP", "RECURSIVE"}
                  THEN path.fp_nh ELSE unwritten,
     dpo |-> path.fp_ex_dpo]

(* ------------------- the members of the per-type union ------------------ *)

\* the member of the anonymous union of fib_path_t that belongs to a type
UnionMember(type) ==
    CASE type = "ATTACHED_NEXT_HOP" -> "attached_next_hop"
      [] type = "ATTACHED" -> "attached"
      [] type = "RECURSIVE" -> "recursive"
      [] type = "DEAG" -> "deag"
      [] type = "SPECIAL" -> "special"
      [] type = "EXCLUSIVE" -> "exclusive"
      [] type = "RECEIVE" -> "receive"

\* the members format_fib_path reads of the path
format_fib_path_members(path) ==
    CASE path.fp_type = "ATTACHED_NEXT_HOP" -> {"attached_next_hop"}
      [] path.fp_type = "ATTACHED" ->
             IF "DROP" \in path.fp_oper_flags
             THEN {"attached_next_hop"}
             ELSE {"attached"}
      [] path.fp_type = "RECURSIVE" -> {"recursive"}
      [] OTHER -> {}

\* the members fib_path_unresolve reads or writes of the path
fib_path_unresolve_members(path) ==
    IF fib_path_is_permanent_drop(path) THEN {}
    ELSE CASE path.fp_type = "RECURSIVE" ->
                  IF path.fp_via_fib # INVALID THEN {"recursive"} ELSE {}
           [] path.fp_type = "EXCLUSIVE" -> {"exclusive"}
           [] OTHER -> {}

\* the members fib_path_create_special writes of the path it makes
fib_path_create_special_members(flags) ==
    IF "DROP" \in flags THEN {}
    ELSE IF "LOCAL" \in flags THEN {"attached"}
    ELSE {"exclusive"}

\* the members fib_path_cmp_i reads of path1 and of path2: the switch is on
\* the type of path1
fib_path_cmp_i_members(path1, path2) ==
    IF path1.fp_nh_proto # path2.fp_nh_proto THEN {}
    ELSE IF path1.fp_type \in {"SPECIAL", "RECEIVE", "EXCLUSIVE"} THEN {}
    ELSE {UnionMember(path1.fp_type)}

\* the members fib_path_cmp_w_route_path reads of the path
fib_path_cmp_w_route_path_members(path, rpath) ==
    IF path.fp_weight # rpath.frp_weight THEN {}
    ELSE IF path.fp_type \in {"SPECIAL", "RECEIVE", "EXCLUSIVE"} THEN {}
    ELSE {UnionMember(path.fp_type)}

\* the members fib_path_encode reads of the path: exclusive.fp_ex_dpo before
\* the switch, and the type's own in it
fib_path_encode_members(path) ==
    {"exclusive"}
    \cup (IF path.fp_type \in {"RECEIVE", "ATTACHED", "ATTACHED_NEXT_HOP", "RECURSIVE"}
          THEN {UnionMember(path.fp_type)}
          ELSE {})

(* ------------------------------- inputs --------------------------------- *)

Weights == {0, 2}

Labels == {1}

\* fib_route_path_t, as fib_path_create reads it; a recursive route path
\* names a table
RoutePaths ==
    {rp \in [frp_addr : Addrs, frp_local_label : Labels,
             frp_sw_if_index : Interfaces \cup {INVALID},
             frp_fib_index : Tables \cup {INVALID},
             frp_weight : Weights,
             frp_flags : SUBSET {"RESOLVE_VIA_HOST", "RESOLVE_VIA_ATTACHED"}] :
        /\ (rp.frp_sw_if_index = INVALID /\ rp.frp_addr # ZeroAddr)
               => rp.frp_fib_index # INVALID
        /\ rp.frp_sw_if_index # INVALID => rp.frp_fib_index = INVALID
        /\ (rp.frp_sw_if_index # INVALID \/ rp.frp_addr = ZeroAddr)
               => rp.frp_flags = {}}

\* the flags a path-list creates its paths with
CreateFlags == {{}, {"DROP"}, {"LOCAL"}}

\* the reasons the parents of a path of this type walk it with
ReasonsOf(type) ==
    IF type = "RECURSIVE"
    THEN {"EVALUATE", "ADJ_UPDATE", "ADJ_DOWN"}
    ELSE {"INTERFACE_UP", "INTERFACE_DOWN", "INTERFACE_DELETE", "ADJ_UPDATE", "ADJ_DOWN"}

(* ------------------------------- actions -------------------------------- *)

\* the state after a call; the call's outputs (lbm, walked, bad) are not state
Commit(w) ==
    /\ pool' = w.pool
    /\ pool_free' = w.free
    /\ adj_locks' = w.adj_locks
    /\ adj_children' = w.adj_children
    /\ if_admin_up' = w.admin_up
    /\ fe_rr' = w.fe_rr
    /\ fe_api' = w.fe_api
    /\ fe_attached' = w.fe_attached
    /\ fe_children' = w.fe_children
    /\ ex_locks' = w.ex_locks
    /\ resolves' = w.resolves
    /\ allocs' = w.allocs

Live(pi) == ~pool_free[pi]

CanAllocate == allocs < MaxAllocs /\ \E pi \in PathIds : pool_free[pi]

CanCreate == CanAllocate /\ Cardinality({pi \in PathIds : Live(pi)}) < MaxFresh

Init ==
    /\ pool = [pi \in PathIds |-> ZeroPath]
    /\ pool_free = [pi \in PathIds |-> TRUE]
    /\ adj_locks = [ai \in AdjIds |-> 0]
    /\ adj_children = [ai \in AdjIds |-> {}]
    /\ if_admin_up = [i \in Interfaces |-> TRUE]
    /\ fe_rr = [e \in EntryIds |-> 0]
    /\ fe_api = [e \in EntryIds |-> FALSE]
    /\ fe_attached = [e \in EntryIds |-> FALSE]
    /\ fe_children = [e \in EntryIds |-> {}]
    /\ ex_locks = 1
    /\ resolves = [pi \in PathIds |-> 0]
    /\ allocs = 0

\* path-list 0 creates the paths, and they are copied to path-list 1
Create ==
    /\ CanCreate
    /\ \E proto \in Protos, flags \in CreateFlags, rp \in RoutePaths :
           Commit(fib_path_create(World, 0, proto, flags, rp))

CreateSpecial ==
    /\ CanCreate
    /\ \E proto \in Protos, flags \in CreateFlags :
           Commit(fib_path_create_special(World, 0, proto, flags, UserDpo))

Copy ==
    /\ CanAllocate
    /\ \E pi \in PathIds :
           /\ Live(pi)
           /\ Commit(fib_path_copy(World, pi, 1))

\* fib_path_resolve asserts that a recursive path has no via-entry yet
CanResolve(w, pi) ==
    /\ ~w.free[pi]
    /\ w.resolves[pi] < MaxResolves
    /\ (w.pool[pi].fp_type = "RECURSIVE" /\ ~fib_path_is_permanent_drop(w.pool[pi]))
           => w.pool[pi].fp_via_fib = INVALID

Resolve ==
    \E pi \in PathIds :
        /\ CanResolve(World, pi)
        /\ Commit(fib_path_resolve(World, pi))

Destroy ==
    \E pi \in PathIds :
        /\ Live(pi)
        /\ Commit(fib_path_destroy(World, pi))

\* the forward walk reaches a path once its path-list has been resolved
CanLoopDetect(w, pi) == ~w.free[pi] /\ w.resolves[pi] > 0

LoopDetect ==
    \E pi \in PathIds, entry_indicies \in SUBSET EntryIds, via_looped \in BOOLEAN :
        /\ CanLoopDetect(World, pi)
        /\ Commit(fib_path_recursive_loop_detect(World, pi, entry_indicies, via_looped))

\* a path can be walked once it has been resolved; a recursive path is
\* walked by its via-entry
CanWalk(w, pi) ==
    /\ ~w.free[pi]
    /\ w.resolves[pi] > 0
    /\ w.pool[pi].fp_type \in WalkedTypes
    /\ w.pool[pi].fp_type = "RECURSIVE" => w.pool[pi].fp_via_fib # INVALID

\* the reason sets a parent walks a path of this type with
WalkReasons(type) ==
    {reason \in SUBSET ReasonsOf(type) :
        reason # {} /\ Cardinality(reason) <= MaxReasons}

\* a back-walk delivered to one path
BackWalk ==
    \E pi \in PathIds :
        /\ CanWalk(World, pi)
        /\ \E reason \in WalkReasons(pool[pi].fp_type) :
               Commit(fib_path_back_walk_notify(World, pi, reason))

\* the chains a child may ask a path for: the path's own, and another where
\* fib_path_contribute_forwarding has a case for the path's type
CanContribute(w, pi, fct) ==
    /\ ~w.free[pi]
    /\ w.resolves[pi] > 0
    /\ \/ fib_path_proto_to_chain_type(w.pool[pi].fp_nh_proto) = fct
       \/ w.pool[pi].fp_type \in {"ATTACHED_NEXT_HOP", "RECURSIVE", "DEAG", "EXCLUSIVE"}

\* the caller lets go of the vector it collected, and of the DPOs in it
ReleaseHashKey(w, hash_key) ==
    IF hash_key = <<>> THEN w ELSE dpo_unlock(w, hash_key[1].path_dpo)

\* a child of the path-list collects the forwarding of one path
AppendNextHop ==
    \E pi \in PathIds, fct \in ChainTypes :
        /\ CanContribute(World, pi, fct)
        /\ LET r == fib_path_append_nh_for_multipath_hash(World, pi, fct, <<>>)
           IN  Commit(ReleaseHashKey(r.w, r.hash_key))

\* the interfaces and the entries some live path depends on
UsedInterface(i) ==
    \E pi \in PathIds :
        /\ Live(pi)
        /\ pool[pi].fp_type \in {"ATTACHED_NEXT_HOP", "ATTACHED"}
        /\ pool[pi].fp_interface = i

\* the admin state of an interface some path is attached to changes
SetAdminState ==
    \E i \in Interfaces :
        /\ UsedInterface(i)
        /\ Commit([World EXCEPT !.admin_up[i] = ~@])

\* another source adds or withdraws the prefix of an entry that a path
\* pins, or the entry gains or loses the attached flag
SetEntryState ==
    \E e \in EntryIds :
        /\ fe_rr[e] > 0
        /\ \/ Commit([World EXCEPT !.fe_api[e] = ~@])
           \/ Commit([World EXCEPT !.fe_attached[e] = ~@])

Next ==
    \/ Create
    \/ CreateSpecial
    \/ Copy
    \/ Resolve
    \/ Destroy
    \/ LoopDetect
    \/ BackWalk
    \/ AppendNextHop
    \/ SetAdminState
    \/ SetEntryState

Spec == Init /\ [][Next]_vars

(* ---------- construction alone: the paths the constructors make --------- *)

MaxAddr == 2

MaxTable == 1

MaxLabel == 2

\* fib_route_path_t with every combination of its fields
AnyRoutePaths ==
    [frp_addr : 0 .. MaxAddr, frp_local_label : 1 .. MaxLabel,
     frp_sw_if_index : Interfaces \cup {INVALID},
     frp_fib_index : (0 .. MaxTable) \cup {INVALID},
     frp_weight : Weights,
     frp_flags : SUBSET {"RESOLVE_VIA_HOST", "RESOLVE_VIA_ATTACHED"}]

\* the flags fib_path_create and fib_path_create_special are called with
AnyCreateFlags == SUBSET {"DROP", "LOCAL"}

\* the outcomes of reading bytes the code did not write
Unwritten == {0, 1}

\* what comparing union members of two paths of different types can give
Overlays == {-1, 0, 1}

Construct ==
    /\ CanAllocate
    /\ \E proto \in Protos, flags \in AnyCreateFlags, rp \in AnyRoutePaths :
           Commit(fib_path_create(World, 0, proto, flags, rp))

ConstructSpecial ==
    /\ CanAllocate
    /\ \E proto \in Protos, flags \in AnyCreateFlags :
           Commit(fib_path_create_special(World, 0, proto, flags, UserDpo))

PathNext ==
    \/ Construct
    \/ ConstructSpecial
    \/ Copy

PathSpec == Init /\ [][PathNext]_vars

(* ------------------------------ properties ------------------------------ *)

AttachedKinds == {"ATTACHED_NEXT_HOP", "ATTACHED"}

\* the drop DPO of the path's nh_proto
DropOf(path) == drop_dpo_get(fib_proto_to_dpo(path.fp_nh_proto))

\* the reason sets of a walk that reaches the INTERFACE_DELETE block: the
\* INTERFACE_UP and INTERFACE_DOWN blocks before it can return early
DeleteReasons ==
    {reason \in WalkReasons("ATTACHED_NEXT_HOP") :
        /\ "INTERFACE_DELETE" \in reason
        /\ "INTERFACE_UP" \notin reason
        /\ "INTERFACE_DOWN" \notin reason}

\* the states one call on a live path leads to, the path staying live
CallResults(pi) ==
    {fib_path_back_walk_notify(World, pi, reason) :
        reason \in IF CanWalk(World, pi) THEN WalkReasons(pool[pi].fp_type) ELSE {}}
    \cup {fib_path_recursive_loop_detect(World, pi, x[1], x[2]) :
        x \in IF CanLoopDetect(World, pi) THEN (SUBSET EntryIds) \X BOOLEAN ELSE {}}
    \cup (IF CanResolve(World, pi) THEN {fib_path_resolve(World, pi)} ELSE {})

\* C1: an AttachedNextHop or Attached path that was the only path ever
\* allocated, was resolved once, received any back-walks and was destroyed
\* leaves every adjacency with the lock count and the child list it had
\* before the resolve (none), and its slot is free.
C1_DestroyRestoresAdjacency ==
    \A pi \in PathIds :
        (/\ pool_free[pi]
         /\ allocs = 1
         /\ resolves[pi] = 1
         /\ pool[pi].fp_type \in AttachedKinds)
        => \A ai \in AdjIds : adj_locks[ai] = 0 /\ adj_children[ai] = {}

\* the live recursive paths that pin entry e
Pinning(e) ==
    {pi \in PathIds :
        Live(pi) /\ pool[pi].fp_type = "RECURSIVE" /\ pool[pi].fp_via_fib = e}

\* C2: a live Recursive path that is not a permanent drop and has been
\* resolved has as via_fib the index of the host entry of its next-hop in its
\* table, that entry carries source RR once for each path that pins it, and
\* the path is on the entry's child list under its sibling token; resolve
\* establishes this, and destroy takes the path's registration off the child
\* list, takes its RR source off the prefix and leaves via_fib INVALID.
C2_RecursivePinsViaEntry ==
    /\ \A e \in EntryIds :
           /\ fe_rr[e] = Cardinality(Pinning(e))
           /\ fe_children[e] = {<<pool[pi].fp_sibling, pi>> : pi \in Pinning(e)}
    /\ \A pi \in PathIds :
           (/\ pool[pi].fp_type = "RECURSIVE"
            /\ ~fib_path_is_permanent_drop(pool[pi]))
           => LET e == EntryIndex(pool[pi].fp_tbl_id, pool[pi].fp_nh_proto, pool[pi].fp_nh)
                  r == fib_path_resolve(World, pi)
                  d == fib_path_destroy(World, pi)
              IN  /\ (Live(pi) /\ resolves[pi] > 0) => pool[pi].fp_via_fib = e
                  /\ CanResolve(World, pi) =>
                         /\ r.pool[pi].fp_via_fib = e
                         /\ r.fe_rr[e] = fe_rr[e] + 1
                         /\ <<r.pool[pi].fp_sibling, pi>> \in r.fe_children[e]
                         /\ <<r.pool[pi].fp_sibling, pi>> \notin fe_children[e]
                  /\ (Live(pi) /\ resolves[pi] > 0) =>
                         /\ d.pool[pi].fp_via_fib = INVALID
                         /\ d.fe_rr[e] = fe_rr[e] - 1
                         /\ d.fe_children[e] = fe_children[e] \ {<<pool[pi].fp_sibling, pi>>}
                         /\ d.free[pi]
                         /\ ~d.bad

\* C2 witness: a recursive path was resolved and then destroyed while a
\* second path still pins the same entry
C2_Witness ==
    \E pi \in PathIds, qi \in PathIds :
        /\ pool_free[pi]
        /\ resolves[pi] = 1
        /\ pool[pi].fp_type = "RECURSIVE"
        /\ ~fib_path_is_permanent_drop(pool[pi])
        /\ pool[pi].fp_via_fib = INVALID
        /\ Live(qi)
        /\ pool[qi].fp_via_fib \in EntryIds
        /\ fe_rr[pool[qi].fp_via_fib] = 1
        /\ fe_children[pool[qi].fp_via_fib] = {<<pool[qi].fp_sibling, qi>>}

\* C3: an INTERFACE_DELETE back-walk on a subscribed AttachedNextHop or
\* Attached path sets the DROP oper-flag, takes the path's registration off
\* the adjacency's child list and leaves is_resolved false; and once DROP is
\* set, every later call on the path (a back-walk with any reasons, loop
\* detection, resolve) leaves DROP set, is_resolved false and the child lists
\* of all adjacencies as they were.
C3_InterfaceDeleteIsPermanent ==
    \A pi \in PathIds :
        Live(pi) =>
            /\ (/\ pool[pi].fp_type \in AttachedKinds
                /\ CanWalk(World, pi)
                /\ ~fib_path_is_permanent_drop(pool[pi]))
               => \A reason \in DeleteReasons :
                      LET w2 == fib_path_back_walk_notify(World, pi, reason)
                          ai == pool[pi].fp_dpo.index
                          reg == <<pool[pi].fp_sibling, pi>>
                      IN  /\ "DROP" \in w2.pool[pi].fp_oper_flags
                          /\ ~fib_path_is_resolved(w2.pool[pi])
                          /\ reg \in adj_children[ai]
                          /\ w2.adj_children = [adj_children EXCEPT ![ai] = @ \ {reg}]
                          /\ ~w2.bad
            /\ "DROP" \in pool[pi].fp_oper_flags
               => /\ ~fib_path_is_resolved(pool[pi])
                  /\ \A w2 \in CallResults(pi) :
                         /\ "DROP" \in w2.pool[pi].fp_oper_flags
                         /\ ~fib_path_is_resolved(w2.pool[pi])
                         /\ w2.adj_children = adj_children

\* C3 witness: after the delete an ADJ_UPDATE back-walk has set RESOLVED and
\* a valid DPO again, and the path is on no child list
C3_Witness ==
    \E pi \in PathIds :
        /\ Live(pi)
        /\ pool[pi].fp_type \in AttachedKinds
        /\ "DROP" \in pool[pi].fp_oper_flags
        /\ "RESOLVED" \in pool[pi].fp_oper_flags
        /\ dpo_id_is_valid(pool[pi].fp_dpo)
        /\ \A ai \in AdjIds : adj_children[ai] = {}

\* C4: (the claim as stated) a live path that has been resolved and is a
\* permanent drop has the drop DPO of its nh_proto as fp_dpo and RESOLVED
\* clear.
C4_PermanentDropContributesDrop ==
    \A pi \in PathIds :
        (Live(pi) /\ resolves[pi] > 0 /\ fib_path_is_permanent_drop(pool[pi]))
        => /\ pool[pi].fp_dpo = DropOf(pool[pi])
           /\ "RESOLVED" \notin pool[pi].fp_oper_flags

\* C5: for an AttachedNextHop path that is resolved over an admin-up
\* interface, an INTERFACE_DOWN back-walk leaves is_resolved false, fp_dpo the
\* same ADJACENCY DPO, and the adjacency's locks and child list (with the
\* path's registration on it) unchanged; an INTERFACE_UP back-walk after it
\* makes is_resolved true again.  INTERFACE_UP does so on any subscribed
\* AttachedNextHop path whose RESOLVED flag is clear.
C5_InterfaceDownThenUp ==
    \A pi \in PathIds :
        (/\ CanWalk(World, pi)
         /\ pool[pi].fp_type = "ATTACHED_NEXT_HOP")
        => LET down == fib_path_back_walk_notify(World, pi, {"INTERFACE_DOWN"})
               up == fib_path_back_walk_notify(down, pi, {"INTERFACE_UP"})
               up_alone == fib_path_back_walk_notify(World, pi, {"INTERFACE_UP"})
           IN  /\ (/\ fib_path_is_resolved(pool[pi])
                   /\ vnet_sw_interface_is_admin_up(World, pool[pi].fp_interface))
                  => /\ ~fib_path_is_resolved(down.pool[pi])
                     /\ down.pool[pi].fp_dpo = pool[pi].fp_dpo
                     /\ pool[pi].fp_dpo.type = "ADJACENCY"
                     /\ <<pool[pi].fp_sibling, pi>> \in down.adj_children[pool[pi].fp_dpo.index]
                     /\ down.adj_children = adj_children
                     /\ down.adj_locks = adj_locks
                     /\ fib_path_is_resolved(up.pool[pi])
                     /\ up.pool[pi].fp_dpo = pool[pi].fp_dpo
                     /\ up.adj_children = adj_children
                     /\ up.adj_locks = adj_locks
               /\ (/\ ~fib_path_is_permanent_drop(pool[pi])
                   /\ "RESOLVED" \notin pool[pi].fp_oper_flags)
                  => fib_path_is_resolved(up_alone.pool[pi])

\* C5 witness: the path after the INTERFACE_DOWN back-walk, its interface
\* admin-up
C5_Witness ==
    \E pi \in PathIds :
        /\ Live(pi)
        /\ pool[pi].fp_type = "ATTACHED_NEXT_HOP"
        /\ ~fib_path_is_permanent_drop(pool[pi])
        /\ "RESOLVED" \notin pool[pi].fp_oper_flags
        /\ vnet_sw_interface_is_admin_up(World, pool[pi].fp_interface)
        /\ pool[pi].fp_dpo.type = "ADJACENCY"
        /\ <<pool[pi].fp_sibling, pi>> \in adj_children[pool[pi].fp_dpo.index]

\* the host entry of a recursive path's next-hop in its table
ViaEntryOf(path) == EntryIndex(path.fp_tbl_id, path.fp_nh_proto, path.fp_nh)

\* the recursion constraints of the path's cfg-flags hold of entry e
ConstraintsMet(w, path, e) ==
    /\ "RESOLVE_HOST" \in path.fp_cfg_flags
           => fib_entry_get_best_source(w, e) < FIB_SOURCE_RR
    /\ ("RESOLVE_HOST" \notin path.fp_cfg_flags /\ "RESOLVE_ATTACHED" \in path.fp_cfg_flags)
           => "ATTACHED" \in fib_entry_get_flags(w, e)

\* the DPO the via-entry contributes on the path's native chain
ViaForwarding(w, path, e) ==
    fib_entry_contribute_forwarding(w, e, fib_path_proto_to_chain_type(path.fp_nh_proto))

\* the reason sets of a walk that carry EVALUATE
EvaluateReasons == {reason \in WalkReasons("RECURSIVE") : "EVALUATE" \in reason}

\* C6: (the claim's "only if" half, less its interface clause) on a live path
\* that has been resolved, RESOLVED set implies a valid fp_dpo, RECURSIVE_LOOP
\* clear and no permanent drop.
C6_ResolvedFlagOnlyIfUsable ==
    \A pi \in PathIds :
        (Live(pi) /\ resolves[pi] > 0 /\ "RESOLVED" \in pool[pi].fp_oper_flags)
        => /\ dpo_id_is_valid(pool[pi].fp_dpo)
           /\ "RECURSIVE_LOOP" \notin pool[pi].fp_oper_flags
           /\ ~fib_path_is_permanent_drop(pool[pi])

\* C6, amended: is_resolved is true exactly when RESOLVED is set, fp_dpo is
\* valid, RECURSIVE_LOOP is clear and neither DROP flag is set; the RESOLVED
\* flag itself is, at the return of fib_path_resolve, set exactly when the
\* path is no permanent drop, is not looped, its interface is admin-up (the
\* attached kinds) and its recursion constraints hold of the via-entry (the
\* recursive kind), and fp_dpo is valid then.
C6_ResolvedFlagAfterResolve ==
    \A pi \in PathIds :
        /\ Live(pi) =>
               (fib_path_is_resolved(pool[pi])
                <=> /\ "RESOLVED" \in pool[pi].fp_oper_flags
                    /\ pool[pi].fp_dpo.type # "INVALID"
                    /\ "RECURSIVE_LOOP" \notin pool[pi].fp_oper_flags
                    /\ "DROP" \notin pool[pi].fp_cfg_flags
                    /\ "DROP" \notin pool[pi].fp_oper_flags)
        /\ CanResolve(World, pi) =>
               LET r == fib_path_resolve(World, pi)
                   path == pool[pi]
               IN  /\ dpo_id_is_valid(r.pool[pi].fp_dpo)
                   /\ "RESOLVED" \in r.pool[pi].fp_oper_flags
                      <=> /\ ~fib_path_is_permanent_drop(path)
                          /\ "RECURSIVE_LOOP" \notin path.fp_oper_flags
                          /\ path.fp_type \in AttachedKinds
                                 => vnet_sw_interface_is_admin_up(World, path.fp_interface)
                          /\ path.fp_type = "RECURSIVE"
                                 => ConstraintsMet(World, path, ViaEntryOf(path))

\* C6 witness: a recursive path with RESOLVED and RECURSIVE_LOOP both set
C6_Witness ==
    \E pi \in PathIds :
        /\ Live(pi)
        /\ pool[pi].fp_type = "RECURSIVE"
        /\ "RESOLVED" \in pool[pi].fp_oper_flags
        /\ "RECURSIVE_LOOP" \in pool[pi].fp_oper_flags
        /\ ~fib_path_is_resolved(pool[pi])

\* C7: on every live path RECURSIVE_LOOP set implies fp_type RECURSIVE.
C7_LoopFlagOnlyOnRecursive ==
    \A pi \in PathIds :
        (Live(pi) /\ "RECURSIVE_LOOP" \in pool[pi].fp_oper_flags)
        => pool[pi].fp_type = "RECURSIVE"

\* C7 witness: a path holds the flag because its via-entry reported a loop
C7_Witness ==
    \E pi \in PathIds :
        /\ Live(pi)
        /\ "RECURSIVE_LOOP" \in pool[pi].fp_oper_flags
        /\ pool[pi].fp_dpo.type = "LOAD_BALANCE"

\* C8: fib_path_recursive_loop_detect on a resolved Recursive path whose
\* via_fib is among the visited entries sets RECURSIVE_LOOP, makes fp_dpo the
\* drop DPO of nh_proto, leaves is_resolved false and returns non-zero, and
\* leaves via_fib, the sibling token, the via-entries' child lists and their
\* RR sources unchanged.
C8_LoopDetectNeutralisesContribution ==
    \A pi \in PathIds, entry_indicies \in SUBSET EntryIds, via_looped \in BOOLEAN :
        (/\ CanLoopDetect(World, pi)
         /\ pool[pi].fp_type = "RECURSIVE"
         /\ fib_path_is_resolved(pool[pi])
         /\ pool[pi].fp_via_fib \in entry_indicies)
        => LET w2 == fib_path_recursive_loop_detect(World, pi, entry_indicies, via_looped)
           IN  /\ "RECURSIVE_LOOP" \in w2.pool[pi].fp_oper_flags
               /\ w2.pool[pi].fp_dpo = DropOf(pool[pi])
               /\ ~fib_path_is_resolved(w2.pool[pi])
               /\ LoopDetectReturn(World, pi, entry_indicies, via_looped)
               /\ w2.pool[pi].fp_via_fib = pool[pi].fp_via_fib
               /\ w2.pool[pi].fp_sibling = pool[pi].fp_sibling
               /\ <<pool[pi].fp_sibling, pi>> \in w2.fe_children[pool[pi].fp_via_fib]
               /\ w2.fe_children = fe_children
               /\ w2.fe_rr = fe_rr

\* C8 witness: the path after such a detection, still pinning its via-entry
C8_Witness ==
    \E pi \in PathIds :
        /\ Live(pi)
        /\ pool[pi].fp_type = "RECURSIVE"
        /\ "RECURSIVE_LOOP" \in pool[pi].fp_oper_flags
        /\ "RESOLVED" \in pool[pi].fp_oper_flags
        /\ pool[pi].fp_dpo = DropOf(pool[pi])
        /\ pool[pi].fp_via_fib \in EntryIds
        /\ <<pool[pi].fp_sibling, pi>> \in fe_children[pool[pi].fp_via_fib]
        /\ fe_api[pool[pi].fp_via_fib]

\* C9: (the claim as stated) an EVALUATE back-walk on a Recursive path that
\* has RECURSIVE_LOOP set clears the flag and leaves is_resolved true.
C9_EvaluateClearsLoop ==
    \A pi \in PathIds :
        (/\ CanWalk(World, pi)
         /\ pool[pi].fp_type = "RECURSIVE"
         /\ "RECURSIVE_LOOP" \in pool[pi].fp_oper_flags)
        => LET w2 == fib_path_back_walk_notify(World, pi, {"EVALUATE"})
           IN  /\ "RECURSIVE_LOOP" \notin w2.pool[pi].fp_oper_flags
               /\ fib_path_is_resolved(w2.pool[pi])

\* C9, amended: a back-walk that carries EVALUATE leaves RECURSIVE_LOOP set on
\* a Recursive path that has it, with the drop DPO of nh_proto, RESOLVED clear
\* and is_resolved false.  The flag goes when fib_path_recursive_loop_detect
\* runs again and finds no loop (via_fib not among the visited entries, the
\* via-entry not looped); a back-walk that carries EVALUATE after that leaves
\* the flag clear and, the recursion constraints holding of the via-entry,
\* makes fp_dpo the via-entry's forwarding DPO and is_resolved true.
C9_LoopClearedByDetectThenEvaluate ==
    \A pi \in PathIds :
        (/\ CanWalk(World, pi)
         /\ pool[pi].fp_type = "RECURSIVE"
         /\ "RECURSIVE_LOOP" \in pool[pi].fp_oper_flags)
        => \A reason \in EvaluateReasons :
               /\ LET ev == fib_path_back_walk_notify(World, pi, reason)
                  IN  /\ "RECURSIVE_LOOP" \in ev.pool[pi].fp_oper_flags
                      /\ ev.pool[pi].fp_dpo = DropOf(pool[pi])
                      /\ "RESOLVED" \notin ev.pool[pi].fp_oper_flags
                      /\ ~fib_path_is_resolved(ev.pool[pi])
               /\ \A entry_indicies \in SUBSET (EntryIds \ {pool[pi].fp_via_fib}) :
                      LET cl == fib_path_recursive_loop_detect(World, pi, entry_indicies, FALSE)
                          ev == fib_path_back_walk_notify(cl, pi, reason)
                      IN  /\ "RECURSIVE_LOOP" \notin cl.pool[pi].fp_oper_flags
                          /\ ~LoopDetectReturn(World, pi, entry_indicies, FALSE)
                          /\ "RECURSIVE_LOOP" \notin ev.pool[pi].fp_oper_flags
                          /\ ConstraintsMet(World, pool[pi], pool[pi].fp_via_fib)
                                 => /\ ev.pool[pi].fp_dpo =
                                           ViaForwarding(World, pool[pi], pool[pi].fp_via_fib)
                                    /\ fib_path_is_resolved(ev.pool[pi])

\* C9 witness: a looped path with no recursion constraint after an EVALUATE
\* back-walk
C9_Witness ==
    \E pi \in PathIds :
        /\ Live(pi)
        /\ pool[pi].fp_type = "RECURSIVE"
        /\ pool[pi].fp_cfg_flags = {}
        /\ "RECURSIVE_LOOP" \in pool[pi].fp_oper_flags
        /\ "RESOLVED" \notin pool[pi].fp_oper_flags
        /\ pool[pi].fp_dpo = DropOf(pool[pi])
        /\ pool[pi].fp_via_fib \in EntryIds

\* what C10 says of a path after fib_path_resolve or an EVALUATE back-walk
\* took the world to w2, e being the host entry of the path's next-hop
ResolveHostOutcome(w2, pi, e) ==
    LET path == w2.pool[pi]
    IN  IF fib_entry_get_best_source(w2, e) >= FIB_SOURCE_RR
        THEN /\ path.fp_dpo = DropOf(path)
             /\ "RESOLVED" \notin path.fp_oper_flags
             /\ ~fib_path_is_resolved(path)
             /\ pi \in w2.lbm
        ELSE /\ path.fp_dpo = ViaForwarding(w2, path, e)
             /\ "RESOLVED" \in path.fp_oper_flags

\* the Recursive paths with RESOLVE_HOST set and RECURSIVE_LOOP clear
ResolveHostPath(pi) ==
    /\ pool[pi].fp_type = "RECURSIVE"
    /\ "RESOLVE_HOST" \in pool[pi].fp_cfg_flags
    /\ "RECURSIVE_LOOP" \notin pool[pi].fp_oper_flags

\* the states fib_path_resolve or an EVALUATE back-walk on the path leads to
ResolveOrEvaluate(pi) ==
    (IF CanResolve(World, pi) THEN {fib_path_resolve(World, pi)} ELSE {})
    \cup {fib_path_back_walk_notify(World, pi, reason) :
             reason \in IF CanWalk(World, pi) THEN EvaluateReasons ELSE {}}

\* C10: (the claim as stated) for a Recursive path with RESOLVE_HOST and
\* RECURSIVE_LOOP clear, after resolve or an EVALUATE back-walk: the best
\* source of the via-entry being RR or worse, fp_dpo is the drop DPO of
\* nh_proto, RESOLVED is clear, is_resolved is false and the load-balance map
\* was told of the path; else fp_dpo is the via-entry's forwarding DPO and
\* RESOLVED is set.
C10_ResolveHost ==
    \A pi \in PathIds :
        ResolveHostPath(pi)
        => \A w2 \in ResolveOrEvaluate(pi) :
               ResolveHostOutcome(w2, pi, ViaEntryOf(pool[pi]))

\* C10, amended: the same of a path that is no permanent drop.
C10_ResolveHostUnlessPermanentDrop ==
    \A pi \in PathIds :
        (ResolveHostPath(pi) /\ ~fib_path_is_permanent_drop(pool[pi]))
        => \A w2 \in ResolveOrEvaluate(pi) :
               /\ w2.pool[pi].fp_via_fib = ViaEntryOf(pool[pi])
               /\ ResolveHostOutcome(w2, pi, ViaEntryOf(pool[pi]))

\* C10 witness: a RESOLVE_HOST path resolved through an entry that a source
\* better than RR contributes to
C10_Witness ==
    \E pi \in PathIds :
        /\ Live(pi)
        /\ ResolveHostPath(pi)
        /\ ~fib_path_is_permanent_drop(pool[pi])
        /\ pool[pi].fp_via_fib \in EntryIds
        /\ fe_api[pool[pi].fp_via_fib]
        /\ "RESOLVED" \in pool[pi].fp_oper_flags
        /\ pool[pi].fp_dpo = ViaForwarding(World, pool[pi], pool[pi].fp_via_fib)

\* what C11 says of a path after fib_path_resolve or an EVALUATE back-walk
\* took the world to w2, e being the host entry of the path's next-hop
ResolveAttachedOutcome(w2, pi, e) ==
    LET path == w2.pool[pi]
    IN  IF "ATTACHED" \in fib_entry_get_flags(w2, e)
        THEN /\ fib_path_is_resolved(path)
             /\ path.fp_dpo = ViaForwarding(w2, path, e)
        ELSE /\ ~fib_path_is_resolved(path)
             /\ path.fp_dpo = DropOf(path)
             /\ "RESOLVED" \notin path.fp_oper_flags
             /\ pi \in w2.lbm

\* the Recursive paths with RESOLVE_ATTACHED set, RESOLVE_HOST not set and
\* RECURSIVE_LOOP clear
ResolveAttachedPath(pi) ==
    /\ pool[pi].fp_type = "RECURSIVE"
    /\ "RESOLVE_ATTACHED" \in pool[pi].fp_cfg_flags
    /\ "RESOLVE_HOST" \notin pool[pi].fp_cfg_flags
    /\ "RECURSIVE_LOOP" \notin pool[pi].fp_oper_flags

\* C11: (the claim as stated) for a Recursive path with RESOLVE_ATTACHED,
\* without RESOLVE_HOST and with RECURSIVE_LOOP clear, after resolve or an
\* EVALUATE back-walk: the path is resolved with the via-entry's forwarding
\* DPO if and only if the via-entry has the ATTACHED flag; otherwise fp_dpo is
\* the drop DPO, RESOLVED is clear and the load-balance map was told.
C11_ResolveAttached ==
    \A pi \in PathIds :
        ResolveAttachedPath(pi)
        => \A w2 \in ResolveOrEvaluate(pi) :
               ResolveAttachedOutcome(w2, pi, ViaEntryOf(pool[pi]))

\* C11, amended: the same of a path that is no permanent drop.
C11_ResolveAttachedUnlessPermanentDrop ==
    \A pi \in PathIds :
        (ResolveAttachedPath(pi) /\ ~fib_path_is_permanent_drop(pool[pi]))
        => \A w2 \in ResolveOrEvaluate(pi) :
               /\ w2.pool[pi].fp_via_fib = ViaEntryOf(pool[pi])
               /\ ResolveAttachedOutcome(w2, pi, ViaEntryOf(pool[pi]))

\* C11 witness: a RESOLVE_ATTACHED path resolved through an entry that has
\* the ATTACHED flag
C11_Witness ==
    \E pi \in PathIds :
        /\ Live(pi)
        /\ ResolveAttachedPath(pi)
        /\ ~fib_path_is_permanent_drop(pool[pi])
        /\ pool[pi].fp_via_fib \in EntryIds
        /\ fe_attached[pool[pi].fp_via_fib]
        /\ fib_path_is_resolved(pool[pi])
        /\ pool[pi].fp_dpo = ViaForwarding(World, pool[pi], pool[pi].fp_via_fib)

\* the chain types other than the path's own
ForeignChains(path) ==
    ChainTypes \ {fib_path_proto_to_chain_type(path.fp_nh_proto)}

\* the Recursive paths that have a via-entry
HasViaEntry(pi) ==
    /\ Live(pi)
    /\ pool[pi].fp_type = "RECURSIVE"
    /\ pool[pi].fp_via_fib \in EntryIds

\* a run of fib_path_recursive_adj_update on the path would find a recursion
\* constraint unmet (a looped path is not checked against its constraints)
WouldFindUnmet(pi) ==
    /\ pool[pi].fp_type = "RECURSIVE"
    /\ ~fib_path_is_looped(pool[pi])
    /\ ~ConstraintsMet(World, pool[pi], ViaEntryOf(pool[pi]))

\* C12: (the claim as stated) load_balance_map_path_state_change is called
\* only by a call that takes the path from resolved to unresolved: not by an
\* EVALUATE back-walk or a resolve of a path whose RESOLVED flag was clear
\* already, and not by fib_path_contribute_forwarding.
C12_NotifiedOnlyOnStateChange ==
    \A pi \in PathIds :
        Live(pi)
        => /\ \A w2 \in CallResults(pi) :
                  w2.lbm # {} => /\ "RESOLVED" \in pool[pi].fp_oper_flags
                                 /\ "RESOLVED" \notin w2.pool[pi].fp_oper_flags
           /\ HasViaEntry(pi)
                  => \A fct \in ChainTypes :
                         fib_path_contribute_forwarding(World, pi, fct).w.lbm = {}

\* C12, amended: load_balance_map_path_state_change is called, for the path
\* itself, by every run of fib_path_recursive_adj_update that finds a
\* recursion constraint unmet on a path that is not looped, whether the
\* RESOLVED flag was set before or not: by fib_path_resolve of a Recursive
\* path that is no permanent drop, by a back-walk that carries EVALUATE and by
\* fib_path_contribute_forwarding for a chain type other than the path's own.
\* It is called by nothing else, and not when the constraint is met.
C12_NotifiedWheneverConstraintUnmet ==
    \A pi \in PathIds :
        Live(pi)
        => /\ CanResolve(World, pi)
                  => fib_path_resolve(World, pi).lbm =
                         IF WouldFindUnmet(pi) /\ ~fib_path_is_permanent_drop(pool[pi])
                         THEN {pi} ELSE {}
           /\ CanWalk(World, pi)
                  => \A reason \in WalkReasons(pool[pi].fp_type) :
                         fib_path_back_walk_notify(World, pi, reason).lbm =
                             IF WouldFindUnmet(pi) /\ "EVALUATE" \in reason
                             THEN {pi} ELSE {}
           /\ CanLoopDetect(World, pi)
                  => \A entry_indicies \in SUBSET EntryIds, via_looped \in BOOLEAN :
                         fib_path_recursive_loop_detect(
                             World, pi, entry_indicies, via_looped).lbm = {}
           /\ (HasViaEntry(pi) \/ pool[pi].fp_type # "RECURSIVE")
                  => \A fct \in ChainTypes :
                         CanContribute(World, pi, fct)
                         => fib_path_contribute_forwarding(World, pi, fct).w.lbm =
                                IF WouldFindUnmet(pi) /\ fct \in ForeignChains(pool[pi])
                                THEN {pi} ELSE {}

\* C12 witness: a Recursive path that resolve left unresolved because its
\* recursion constraint is unmet, and that can be walked and asked again
C12_Witness ==
    \E pi \in PathIds :
        /\ HasViaEntry(pi)
        /\ CanWalk(World, pi)
        /\ WouldFindUnmet(pi)
        /\ "RESOLVED" \notin pool[pi].fp_oper_flags
        /\ pool[pi].fp_dpo = DropOf(pool[pi])
        /\ pool[pi].fp_via_fib = ViaEntryOf(pool[pi])

\* C13: a back-walk that is propagated calls fib_path_list_back_walk with
\* the path as the walk leaves it: the oper-flags and the DPO, and every other
\* field, are at the call what they are at the return.  A walk that is not
\* propagated shows the path-list nothing.
C13_PropagationComesLast ==
    \A pi \in PathIds :
        CanWalk(World, pi)
        => \A reason \in WalkReasons(pool[pi].fp_type) :
               LET w2 == fib_path_back_walk_notify(World, pi, reason)
               IN  IF w2.walked
                   THEN /\ w2.seen = <<w2.pool[pi]>>
                        /\ w2.seen[1].fp_oper_flags = w2.pool[pi].fp_oper_flags
                        /\ w2.seen[1].fp_dpo = w2.pool[pi].fp_dpo
                   ELSE w2.seen = <<>>

\* C13 witness: an AttachedNextHop path that a propagated walk (INTERFACE_DOWN
\* or ADJ_DOWN) took from resolved to unresolved
C13_Witness ==
    \E pi \in PathIds :
        /\ Live(pi)
        /\ resolves[pi] > 0
        /\ pool[pi].fp_type = "ATTACHED_NEXT_HOP"
        /\ ~fib_path_is_permanent_drop(pool[pi])
        /\ if_admin_up[pool[pi].fp_interface]
        /\ "RESOLVED" \notin pool[pi].fp_oper_flags
        /\ pool[pi].fp_dpo.type = "ADJACENCY"

\* the per-type data of two paths of one type are equal
SamePayload(path1, path2) ==
    CASE path1.fp_type = "ATTACHED_NEXT_HOP" ->
             path1.fp_nh = path2.fp_nh /\ path1.fp_interface = path2.fp_interface
      [] path1.fp_type = "ATTACHED" -> path1.fp_interface = path2.fp_interface
      [] path1.fp_type = "RECURSIVE" ->
             path1.fp_nh = path2.fp_nh /\ path1.fp_tbl_id = path2.fp_tbl_id
      [] path1.fp_type = "DEAG" -> path1.fp_tbl_id = path2.fp_tbl_id
      [] path1.fp_type = "RECEIVE" ->
             path1.fp_interface = path2.fp_interface /\ path1.fp_nh = path2.fp_nh
      [] path1.fp_type = "EXCLUSIVE" -> path1.fp_ex_dpo = path2.fp_ex_dpo
      [] path1.fp_type = "SPECIAL" -> TRUE

\* C14: (the claim as stated) for every two paths, fib_path_cmp is 0 if and
\* only if they have the same type, the same nh_proto and equal per-type data.
C14_CmpZeroIffSameConfiguration ==
    \A pi \in PathIds, qi \in PathIds, overlay \in Overlays :
        (Live(pi) /\ Live(qi))
        => (fib_path_cmp(World, pi, qi, overlay) = 0
            <=> /\ pool[pi].fp_type = pool[qi].fp_type
                /\ pool[pi].fp_nh_proto = pool[qi].fp_nh_proto
                /\ SamePayload(pool[pi], pool[qi]))

Sign(x) == IF x < 0 THEN -1 ELSE IF x > 0 THEN 1 ELSE 0

\* C15: (the claim as stated) fib_path_cmp_for_sort is a total order: the
\* sign of cmp(a,b) is the opposite of the sign of cmp(b,a); cmp(a,b) <= 0 and
\* cmp(b,c) <= 0 give cmp(a,c) <= 0; and the type is compared first, then
\* nh_proto.
C15_CmpIsTotalOrder ==
    \A pi \in PathIds, qi \in PathIds, ri \in PathIds :
        (Live(pi) /\ Live(qi) /\ Live(ri))
        => \A o1 \in Overlays, o2 \in Overlays, o3 \in Overlays :
               /\ Sign(fib_path_cmp_for_sort(World, pi, qi, o1))
                      = 0 - Sign(fib_path_cmp_for_sort(World, qi, pi, o2))
               /\ (/\ fib_path_cmp_for_sort(World, pi, qi, o1) <= 0
                   /\ fib_path_cmp_for_sort(World, qi, ri, o2) <= 0)
                      => fib_path_cmp_for_sort(World, pi, ri, o3) <= 0
               /\ pool[pi].fp_type # pool[qi].fp_type
                      => Sign(fib_path_cmp_for_sort(World, pi, qi, o1))
                             = Sign(TypeNum(pool[pi].fp_type) - TypeNum(pool[qi].fp_type))
               /\ (/\ pool[pi].fp_type = pool[qi].fp_type
                   /\ pool[pi].fp_nh_proto # pool[qi].fp_nh_proto)
                      => Sign(fib_path_cmp_for_sort(World, pi, qi, o1))
                             = Sign(ProtoNum(pool[pi].fp_nh_proto)
                                    - ProtoNum(pool[qi].fp_nh_proto))

\* the weights a path can have: fib_path_create makes 1 of 0
PathWeights == {IF wt = 0 THEN 1 ELSE wt : wt \in Weights}

\* the path with another path-list index and the derived fields of a path
\* that was never resolved
Underived(path) ==
    [path EXCEPT !.fp_pl_index = 1 - @, !.fp_oper_flags = {}, !.fp_via_fib = INVALID,
                 !.fp_dpo = DPO_INVALID, !.fp_sibling = 0]

C17_CopyIsUnresolvedTwin ==
    \A pi \in PathIds :
        (Live(pi) /\ CanAllocate)
        => \A pl \in {0, 1} :
               LET w2 == fib_path_copy(World, pi, pl)
                   qi == pool_get(World)
               IN  /\ ~w2.free[qi]
                   /\ qi # pi
                   /\ fib_path_hash(w2.pool[qi]) = fib_path_hash(pool[pi])
                   /\ \A overlay \in Overlays :
                          /\ fib_path_cmp(w2, qi, pi, overlay) = 0
                          /\ fib_path_cmp(w2, pi, qi, overlay) = 0
                   /\ ~fib_path_is_resolved(w2.pool[qi])
                   /\ w2.pool[qi].fp_oper_flags = {}
                   /\ w2.pool[qi].fp_via_fib = INVALID
                   /\ ~dpo_id_is_valid(w2.pool[qi].fp_dpo)
                   /\ w2.pool[qi].fp_pl_index = pl
                   /\ w2.pool[pi] = pool[pi]

\* C17 witness: a resolved path with oper-flags and a valid DPO, and its
\* copy in path-list 1
C17_Witness ==
    \E pi \in PathIds, qi \in PathIds :
        /\ Live(pi) /\ Live(qi)
        /\ fib_path_is_resolved(pool[pi])
        /\ pool[pi].fp_type = "RECURSIVE"
        /\ pool[pi].fp_via_fib \in EntryIds
        /\ pool[pi].fp_pl_index = 0
        /\ pool[qi].fp_pl_index = 1
        /\ resolves[qi] = 0
        /\ pool[qi] = [pool[pi] EXCEPT !.fp_pl_index = 1, !.fp_oper_flags = {},
                                        !.fp_via_fib = INVALID, !.fp_dpo = DPO_INVALID]

\* the calls of fib_path_create: protocol, flags and route path
CreateCalls == Protos \X AnyCreateFlags \X AnyRoutePaths

\* the path fib_path_create makes in the slot it takes
MadeBy(call) == fib_path_create(World, 0, call[1], call[2], call[3]).pool[pool_get(World)]

C19_CreateDeducesType ==
    CanAllocate
    => \A call \in CreateCalls :
           LET rp == call[3]
               path == MadeBy(call)
           IN  /\ path.fp_type =
                      IF rp.frp_sw_if_index # INVALID
                      THEN IF "LOCAL" \in call[2] THEN "RECEIVE"
                           ELSE IF rp.frp_addr = ZeroAddr THEN "ATTACHED"
                           ELSE "ATTACHED_NEXT_HOP"
                      ELSE IF rp.frp_addr # ZeroAddr THEN "RECURSIVE"
                           ELSE IF rp.frp_fib_index = INVALID THEN "SPECIAL"
                           ELSE "DEAG"
               /\ ("RESOLVE_HOST" \in path.fp_cfg_flags)
                      <=> ("RESOLVE_VIA_HOST" \in rp.frp_flags)
               /\ ("RESOLVE_ATTACHED" \in path.fp_cfg_flags)
                      <=> ("RESOLVE_VIA_ATTACHED" \in rp.frp_flags)
               /\ path.fp_cfg_flags \cap {"DROP", "LOCAL"} = call[2]
               /\ ~fib_path_create(World, 0, call[1], call[2], call[3]).free[pool_get(World)]

\* C19 witness: a Receive path with both resolve flags next to a Deag path
C19_Witness ==
    \E pi \in PathIds, qi \in PathIds :
        /\ Live(pi) /\ Live(qi)
        /\ pool[pi].fp_type = "RECEIVE"
        /\ pool[pi].fp_interface \in Interfaces
        /\ {"RESOLVE_HOST", "RESOLVE_ATTACHED", "LOCAL"} \subseteq pool[pi].fp_cfg_flags
        /\ pool[qi].fp_type = "DEAG"
        /\ pool[qi].fp_tbl_id = MaxTable

\* C20: fib_path_create_special makes a Special path under the DROP flag,
\* with or without LOCAL, a Receive path under LOCAL without DROP, and else
\* an Exclusive path that holds the DPO given and a reference of its own on
\* it: the DPO's lock count is one more than before the call.
C20_CreateSpecialKinds ==
    CanAllocate
    => \A proto \in Protos, flags \in AnyCreateFlags :
           LET w2 == fib_path_create_special(World, 0, proto, flags, UserDpo)
               path == w2.pool[pool_get(World)]
           IN  /\ ~w2.free[pool_get(World)]
               /\ path.fp_cfg_flags = flags
               /\ IF "DROP" \in flags
                  THEN path.fp_type = "SPECIAL" /\ w2.ex_locks = ex_locks
                  ELSE IF "LOCAL" \in flags
                  THEN path.fp_type = "RECEIVE" /\ w2.ex_locks = ex_locks
                  ELSE /\ path.fp_type = "EXCLUSIVE"
                       /\ path.fp_ex_dpo = UserDpo
                       /\ w2.ex_locks = ex_locks + 1

\* C20 witness: an Exclusive path, which holds a reference on the client's
\* DPO, next to a Special path made with DROP and LOCAL
C20_Witness ==
    \E pi \in PathIds, qi \in PathIds :
        /\ Live(pi) /\ Live(qi)
        /\ pool[pi].fp_type = "EXCLUSIVE"
        /\ pool[pi].fp_ex_dpo = UserDpo
        /\ ex_locks = 2
        /\ pool[qi].fp_type = "SPECIAL"
        /\ pool[qi].fp_cfg_flags = {"DROP", "LOCAL"}

\* the states one call that takes no slot and frees none leads to
AnyCallResults(pi) ==
    CallResults(pi)
    \cup {fib_path_append_nh_for_multipath_hash(World, pi, fct, <<>>).w :
              fct \in {f \in ChainTypes : CanContribute(World, pi, f)}}

\* C21: every live path has weight >= 1.  fib_path_create stores 1 for a
\* route path of weight 0 and the route path's weight otherwise,
\* fib_path_create_special stores 1, fib_path_copy stores the weight of the
\* original, and resolve, back-walk, loop detection and contribution leave
\* the weight of every path as it is.
C21_WeightAtLeastOne ==
    /\ \A pi \in PathIds : Live(pi) => pool[pi].fp_weight >= 1
    /\ CanCreate =>
           /\ \A proto \in Protos, flags \in CreateFlags, rp \in RoutePaths :
                  fib_path_create(World, 0, proto, flags, rp).pool[pool_get(World)].fp_weight
                      = IF rp.frp_weight = 0 THEN 1 ELSE rp.frp_weight
           /\ \A proto \in Protos, flags \in CreateFlags :
                  fib_path_create_special(World, 0, proto, flags, UserDpo)
                      .pool[pool_get(World)].fp_weight = 1
    /\ \A pi \in PathIds :
           Live(pi) =>
               /\ CanAllocate =>
                      LET c == fib_path_copy(World, pi, 1)
                      IN  /\ c.pool[pool_get(World)].fp_weight = pool[pi].fp_weight
                          /\ c.pool[pi].fp_weight = pool[pi].fp_weight
               /\ \A w2 \in AnyCallResults(pi) :
                      \A qi \in PathIds : w2.pool[qi].fp_weight = pool[qi].fp_weight

\* C21 witness: a path made of a route path of weight 0, resolved and
\* walked, next to its copy
C21_Witness ==
    \E pi \in PathIds, qi \in PathIds :
        /\ pi # qi /\ Live(pi) /\ Live(qi)
        /\ pool[pi].fp_type = "ATTACHED_NEXT_HOP"
        /\ pool[pi].fp_weight = 1
        /\ pool[qi].fp_weight = 1
        /\ pool[qi].fp_pl_index = 1
        /\ resolves[pi] = MaxResolves
        /\ "RESOLVED" \notin pool[pi].fp_oper_flags

\* C22: (the claim as stated) on every live path fp_via_fib is valid exactly
\* when the path is Recursive and fib_path_resolve has been called on it
\* since it was made.  (fib_path_unresolve is called on a Recursive path only
\* by fib_path_destroy, which frees it.)
C22_ViaFibValidIffResolvedRecursive ==
    \A pi \in PathIds :
        Live(pi) =>
            (pool[pi].fp_via_fib # INVALID
             <=> (pool[pi].fp_type = "RECURSIVE" /\ resolves[pi] > 0))

\* C22, amended: on every live path fp_via_fib is valid exactly when the path
\* is Recursive, was not made with the DROP cfg-flag, and fib_path_resolve
\* has been called on it since it was made; it is then the host entry of the
\* path's next-hop in the path's table, and the path is on its child list.
\* fib_path_destroy leaves fp_via_fib invalid.
C22_ViaFibValidUnlessDrop ==
    \A pi \in PathIds :
        /\ Live(pi) =>
               /\ pool[pi].fp_via_fib # INVALID
                  <=> /\ pool[pi].fp_type = "RECURSIVE"
                      /\ "DROP" \notin pool[pi].fp_cfg_flags
                      /\ resolves[pi] > 0
               /\ pool[pi].fp_via_fib # INVALID
                  => /\ pool[pi].fp_via_fib = ViaEntryOf(pool[pi])
                     /\ <<pool[pi].fp_sibling, pi>> \in fe_children[pool[pi].fp_via_fib]
               /\ fib_path_destroy(World, pi).pool[pi].fp_via_fib = INVALID

\* C22 witness: a resolved Recursive path with its via-entry next to its
\* copy, which has none
C22_Witness ==
    \E pi \in PathIds, qi \in PathIds :
        /\ Live(pi) /\ Live(qi)
        /\ pool[pi].fp_type = "RECURSIVE"
        /\ resolves[pi] > 0
        /\ pool[pi].fp_via_fib \in EntryIds
        /\ pool[qi].fp_type = "RECURSIVE"
        /\ pool[qi].fp_pl_index = 1
        /\ pool[qi].fp_via_fib = INVALID

\* C23: (the claim as stated) fib_path_cmp_i, fib_path_cmp_w_route_path,
\* fib_path_encode, fib_path_create_special, fib_path_unresolve and
\* format_fib_path read and write no member of the union but the one that
\* belongs to the type of the path they read or write it of.
C23_OnlyOwnMemberAccessed ==
    /\ \A pi \in PathIds :
           Live(pi) =>
               /\ fib_path_encode_members(pool[pi]) \subseteq {UnionMember(pool[pi].fp_type)}
               /\ fib_path_unresolve_members(pool[pi]) \subseteq {UnionMember(pool[pi].fp_type)}
               /\ format_fib_path_members(pool[pi]) \subseteq {UnionMember(pool[pi].fp_type)}
               /\ \A rp \in AnyRoutePaths :
                      fib_path_cmp_w_route_path_members(pool[pi], rp)
                          \subseteq {UnionMember(pool[pi].fp_type)}
               /\ \A qi \in PathIds :
                      Live(qi) =>
                          /\ fib_path_cmp_i_members(pool[pi], pool[qi])
                                 \subseteq {UnionMember(pool[pi].fp_type)}
                          /\ fib_path_cmp_i_members(pool[pi], pool[qi])
                                 \subseteq {UnionMember(pool[qi].fp_type)}
    /\ CanAllocate =>
           \A proto \in Protos, flags \in AnyCreateFlags :
               fib_path_create_special_members(flags)
                   \subseteq {UnionMember(fib_path_create_special(World, 0, proto, flags, UserDpo)
                                              .pool[pool_get(World)].fp_type)}

\* the types without a parent
NoParentTypes == PathTypes \ WalkedTypes

\* every reason set a walk can carry
AnyReasons == {reason \in SUBSET Reasons : reason # {} /\ Cardinality(reason) <= MaxReasons}

C25_InterfaceWalkPropagatesOnChange ==
    \A pi \in PathIds :
        (CanWalk(World, pi) /\ pool[pi].fp_type = "ATTACHED_NEXT_HOP")
        => \A flag \in {"INTERFACE_UP", "INTERFACE_DOWN"} :
               LET first == fib_path_back_walk_notify(World, pi, {flag})
                   returned == [first EXCEPT !.walked = FALSE, !.seen = <<>>]
                   second == fib_path_back_walk_notify(returned, pi, {flag})
                   was_set == "RESOLVED" \in pool[pi].fp_oper_flags
               IN  /\ first.walked <=> (was_set <=> flag = "INTERFACE_DOWN")
                   /\ "RESOLVED" \in first.pool[pi].fp_oper_flags <=> flag = "INTERFACE_UP"
                   /\ first.pool[pi] = [pool[pi] EXCEPT !.fp_oper_flags =
                                           IF flag = "INTERFACE_UP"
                                           THEN @ \cup {"RESOLVED"}
                                           ELSE @ \ {"RESOLVED"}]
                   /\ ~second.walked
                   /\ second = returned

\* C25 witness: an AttachedNextHop path with RESOLVED clear, for which
\* INTERFACE_UP is propagated once and not twice
C25_Witness ==
    \E pi \in PathIds :
        /\ CanWalk(World, pi)
        /\ pool[pi].fp_type = "ATTACHED_NEXT_HOP"
        /\ "RESOLVED" \notin pool[pi].fp_oper_flags
        /\ dpo_id_is_valid(pool[pi].fp_dpo)
        /\ ~if_admin_up[pool[pi].fp_interface]
        /\ fib_path_back_walk_notify(World, pi, {"INTERFACE_UP"}).walked
        /\ ~fib_path_back_walk_notify(World, pi, {"INTERFACE_DOWN"}).walked

\* the three interface reasons
InterfaceReasons == {"INTERFACE_UP", "INTERFACE_DOWN", "INTERFACE_DELETE"}

\* the state in which the path in slot pi is an AttachedNextHop path with the
\* same flags, interface, DPO and registration
AsNextHop(pi) == [World EXCEPT !.pool[pi].fp_type = "ATTACHED_NEXT_HOP"]

\* C26: (the claim as stated) a back-walk with one of the reasons
\* INTERFACE_UP, INTERFACE_DOWN, INTERFACE_DELETE leaves an Attached path
\* with the oper-flags it leaves an AttachedNextHop path in the same state
\* with, and is propagated to the path-list exactly when it is for that
\* path.
C26_AttachedWalksAsNextHop ==
    \A pi \in PathIds :
        (CanWalk(World, pi) /\ pool[pi].fp_type = "ATTACHED")
        => \A flag \in InterfaceReasons :
               LET attached == fib_path_back_walk_notify(World, pi, {flag})
                   next_hop == fib_path_back_walk_notify(AsNextHop(pi), pi, {flag})
               IN  /\ attached.pool[pi].fp_oper_flags = next_hop.pool[pi].fp_oper_flags
                   /\ attached.walked <=> next_hop.walked

\* C26, amended: a back-walk with one of the reasons INTERFACE_UP,
\* INTERFACE_DOWN, INTERFACE_DELETE leaves an Attached path with the
\* oper-flags, the DPO and the adjacency registration it leaves an
\* AttachedNextHop path in the same state with; the walk of the Attached path
\* is always propagated to the path-list, while that of the AttachedNextHop
\* path is not when it is INTERFACE_UP with RESOLVED set or INTERFACE_DOWN
\* with RESOLVED clear.  ADJ_UPDATE and ADJ_DOWN change nothing of an Attached
\* path and are propagated.
C26_AttachedWalksAlwaysPropagate ==
    \A pi \in PathIds :
        (CanWalk(World, pi) /\ pool[pi].fp_type = "ATTACHED")
        => /\ \A flag \in InterfaceReasons :
                  LET attached == fib_path_back_walk_notify(World, pi, {flag})
                      next_hop == fib_path_back_walk_notify(AsNextHop(pi), pi, {flag})
                      was_set == "RESOLVED" \in pool[pi].fp_oper_flags
                  IN  /\ attached.pool[pi].fp_oper_flags = next_hop.pool[pi].fp_oper_flags
                      /\ attached.pool[pi].fp_dpo = next_hop.pool[pi].fp_dpo
                      /\ attached.adj_children = next_hop.adj_children
                      /\ attached.adj_locks = next_hop.adj_locks
                      /\ attached.walked
                      /\ next_hop.walked <=> ~(\/ flag = "INTERFACE_UP" /\ was_set
                                               \/ flag = "INTERFACE_DOWN" /\ ~was_set)
           /\ \A flag \in {"ADJ_UPDATE", "ADJ_DOWN"} :
                  fib_path_back_walk_notify(World, pi, {flag})
                      = fib_path_list_back_walk(World, pi)

\* C26 witness: an Attached path with RESOLVED set, whose INTERFACE_UP walk
\* is propagated
C26_Witness ==
    \E pi \in PathIds :
        /\ CanWalk(World, pi)
        /\ pool[pi].fp_type = "ATTACHED"
        /\ fib_path_is_resolved(pool[pi])
        /\ pool[pi].fp_dpo.type = "ADJACENCY_GLEAN"
        /\ fib_path_back_walk_notify(World, pi, {"INTERFACE_UP"}).walked
        /\ ~fib_path_back_walk_notify(AsNextHop(pi), pi, {"INTERFACE_UP"}).walked

\* the adjacency fib_path_attached_next_hop_get_adj finds for the path and the
\* link type of its protocol
NextHopAdj(path) ==
    AdjNbrIndex(path.fp_nh_proto, fib_proto_to_link(path.fp_nh_proto),
                IF vnet_sw_interface_is_p2p(path.fp_interface) THEN ZeroAddr ELSE path.fp_nh,
                path.fp_interface)

C28_RecursiveWalkByReason ==
    \A pi \in PathIds :
        (CanWalk(World, pi) /\ pool[pi].fp_type = "RECURSIVE")
        => \A reason \in WalkReasons("RECURSIVE") :
               LET r == fib_path_back_walk_notify(World, pi, reason)
               IN  /\ ("ADJ_UPDATE" \in reason \/ "ADJ_DOWN" \in reason) => ~r.walked
                   /\ "EVALUATE" \in reason
                          => /\ r.pool = RecursiveRestack(World, pi).pool
                             /\ r.walked

\* C28, amended: a back-walk of a Recursive path is propagated to the
\* path-list exactly when its reasons include neither ADJ_UPDATE nor
\* ADJ_DOWN, with or without EVALUATE; when they include EVALUATE,
\* fib_path_recursive_adj_update is run on the native chain first (the DPO is
\* the via-entry's forwarding when the path is not looped and its
\* constraints hold of the via-entry, and the drop DPO otherwise), and
\* without EVALUATE nothing changes.
C28_RecursiveWalkStopsOnAdjReasons ==
    \A pi \in PathIds :
        (CanWalk(World, pi) /\ pool[pi].fp_type = "RECURSIVE")
        => \A reason \in WalkReasons("RECURSIVE") :
               LET r == fib_path_back_walk_notify(World, pi, reason)
                   path == pool[pi]
                   usable == /\ ~fib_path_is_looped(path)
                             /\ ConstraintsMet(World, path, path.fp_via_fib)
               IN  /\ r.walked <=> ("ADJ_UPDATE" \notin reason /\ "ADJ_DOWN" \notin reason)
                   /\ IF "EVALUATE" \in reason
                      THEN /\ r.pool = RecursiveRestack(World, pi).pool
                           /\ r.pool[pi].fp_dpo =
                                  IF usable
                                  THEN ViaForwarding(World, path, path.fp_via_fib)
                                  ELSE DropOf(path)
                           /\ ("RESOLVED" \in r.pool[pi].fp_oper_flags) <=> usable
                      ELSE r.pool = pool

\* C28 witness: a Recursive path whose via-entry has changed since the path
\* took its DPO, so that a walk with EVALUATE and ADJ_UPDATE changes the DPO
\* and is not propagated
C28_Witness ==
    \E pi \in PathIds :
        /\ CanWalk(World, pi)
        /\ pool[pi].fp_type = "RECURSIVE"
        /\ ~fib_path_is_permanent_drop(pool[pi])
        /\ fe_api[pool[pi].fp_via_fib]
        /\ LET r == fib_path_back_walk_notify(World, pi, {"EVALUATE", "ADJ_UPDATE"})
           IN  /\ ~r.walked
               /\ r.pool[pi].fp_dpo # pool[pi].fp_dpo
               /\ r.pool[pi].fp_dpo.type = "LOAD_BALANCE"

\* the registrations of the path in slot pi on the child list of a parent
Registrations(children, pi) == {c \in children : c[2] = pi}

\* C29: (the claim as stated) a path is at most once on the child list of a
\* parent; an AttachedNextHop or Attached path is on the child list of an
\* adjacency, and a Recursive path on that of an entry, exactly under the
\* token in fp_sibling, and no other path is on any; a slot that was freed
\* by fib_path_destroy, after any number of calls of fib_path_resolve, is on
\* no child list.
C29_OneRegistrationPerPath ==
    \A pi \in PathIds :
        /\ \A ai \in AdjIds :
               /\ Cardinality(Registrations(adj_children[ai], pi)) <= 1
               /\ Registrations(adj_children[ai], pi) # {}
                      => /\ Live(pi)
                         /\ pool[pi].fp_type \in AttachedKinds
                         /\ pool[pi].fp_dpo.index = ai
                         /\ Registrations(adj_children[ai], pi) = {<<pool[pi].fp_sibling, pi>>}
        /\ \A e \in EntryIds :
               /\ Cardinality(Registrations(fe_children[e], pi)) <= 1
               /\ Registrations(fe_children[e], pi) # {}
                      => /\ Live(pi)
                         /\ pool[pi].fp_type = "RECURSIVE"
                         /\ pool[pi].fp_via_fib = e
                         /\ Registrations(fe_children[e], pi) = {<<pool[pi].fp_sibling, pi>>}

\* the DPO the claim gives an AttachedNextHop or Attached path: over a
\* point-to-point interface the neighbour adjacency of the all-zeros
\* address, else the glean (Attached) or the neighbour adjacency of the
\* next-hop (AttachedNextHop), for the link type of the path's protocol
AttachedDpo(path) ==
    IF path.fp_type = "ATTACHED" /\ ~vnet_sw_interface_is_p2p(path.fp_interface)
    THEN [type |-> "ADJACENCY_GLEAN", proto |-> fib_proto_to_dpo(path.fp_nh_proto),
          index |-> AdjGleanIndex(path.fp_nh_proto, path.fp_interface)]
    ELSE [type |-> "ADJACENCY", proto |-> fib_proto_to_dpo(path.fp_nh_proto),
          index |-> AdjNbrIndex(path.fp_nh_proto, fib_proto_to_link(path.fp_nh_proto),
                                IF vnet_sw_interface_is_p2p(path.fp_interface)
                                THEN ZeroAddr
                                ELSE path.fp_nh,
                                path.fp_interface)]

\* C30: (the claim as stated) fib_path_resolve of an Attached or
\* AttachedNextHop path, and the ADJ_UPDATE restack of an AttachedNextHop
\* path, stack the DPO above and make the path a child of its adjacency.
C30_AttachedResolveTakesAdjacency ==
    \A pi \in PathIds :
        /\ (CanResolve(World, pi) /\ pool[pi].fp_type \in AttachedKinds)
           => LET r == fib_path_resolve(World, pi)
              IN  /\ r.pool[pi].fp_dpo = AttachedDpo(pool[pi])
                  /\ <<r.pool[pi].fp_sibling, pi>> \in r.adj_children[AttachedDpo(pool[pi]).index]
        /\ (CanWalk(World, pi) /\ pool[pi].fp_type = "ATTACHED_NEXT_HOP")
           => fib_path_back_walk_notify(World, pi, {"ADJ_UPDATE"}).pool[pi].fp_dpo
                  = AttachedDpo(pool[pi])

\* C30, amended: fib_path_resolve of an Attached or AttachedNextHop path that
\* is no permanent drop stacks the DPO above, takes a lock on its adjacency
\* and makes the path a child of it; fib_path_resolve of a permanent drop
\* stacks the drop DPO and takes no adjacency.  The ADJ_UPDATE restack of an
\* AttachedNextHop path stacks the DPO above, permanent drop or not.
C30_AttachedResolveUnlessPermanentDrop ==
    \A pi \in PathIds :
        /\ (CanResolve(World, pi) /\ pool[pi].fp_type \in AttachedKinds)
           => LET r == fib_path_resolve(World, pi)
                  ai == AttachedDpo(pool[pi]).index
              IN  IF fib_path_is_permanent_drop(pool[pi])
                  THEN /\ r.pool[pi].fp_dpo = DropOf(pool[pi])
                       /\ r.adj_children = adj_children
                       /\ \A aj \in AdjIds : r.adj_locks[aj] <= adj_locks[aj]
                  ELSE /\ r.pool[pi].fp_dpo = AttachedDpo(pool[pi])
                       /\ <<r.pool[pi].fp_sibling, pi>> \in r.adj_children[ai]
                       /\ <<r.pool[pi].fp_sibling, pi>> \notin adj_children[ai]
                       /\ r.adj_locks[ai] > adj_locks[ai]
                       /\ \A aj \in AdjIds \ {ai} : r.adj_locks[aj] <= adj_locks[aj]
        /\ (CanWalk(World, pi) /\ pool[pi].fp_type = "ATTACHED_NEXT_HOP")
           => fib_path_back_walk_notify(World, pi, {"ADJ_UPDATE"}).pool[pi].fp_dpo
                  = AttachedDpo(pool[pi])

\* C30 witness: a resolved Attached path over the point-to-point interface,
\* a child of the neighbour adjacency of the all-zeros address
C30_Witness ==
    \E pi \in PathIds :
        /\ Live(pi)
        /\ pool[pi].fp_type = "ATTACHED"
        /\ vnet_sw_interface_is_p2p(pool[pi].fp_interface)
        /\ fib_path_is_resolved(pool[pi])
        /\ pool[pi].fp_dpo.type = "ADJACENCY"
        /\ pool[pi].fp_dpo.index
               = AdjNbrIndex(pool[pi].fp_nh_proto, fib_proto_to_link(pool[pi].fp_nh_proto),
                             ZeroAddr, pool[pi].fp_interface)
        /\ <<pool[pi].fp_sibling, pi>> \in adj_children[pool[pi].fp_dpo.index]
        /\ adj_locks[pool[pi].fp_dpo.index] > 0

\* the weights a route path is matched with: those paths are created with,
\* and the one fib_path_create stores for none
MatchWeights == Weights \cup {1}

\* C31: (the claim as stated) fib_path_cmp_w_route_path of the path that
\* fib_path_create made of a route path rp and rp itself is 0, also for an
\* rp of weight 0, and it is not 0 for a route path that differs from rp in
\* its weight.
C31_CreatedPathMatchesItsRoutePath ==
    CanAllocate =>
        \A call \in CreateCalls :
            /\ fib_path_cmp_w_route_path(MadeBy(call), call[3]) = 0
            /\ \A weight \in MatchWeights \ {call[3].frp_weight} :
                   fib_path_cmp_w_route_path(
                       MadeBy(call), [call[3] EXCEPT !.frp_weight = weight]) # 0

\* the live paths whose exclusive.fp_ex_dpo names the user's DPO
LiveExclusive ==
    {pi \in PathIds : Live(pi) /\ pool[pi].fp_type = "EXCLUSIVE"
                               /\ pool[pi].fp_ex_dpo = UserDpo}

\* the live paths whose contributed DPO names the user's DPO
LiveContributing == {pi \in PathIds : Live(pi) /\ pool[pi].fp_dpo = UserDpo}

\* C32: (the claim as stated) in every state reached by
\* fib_path_create_special, fib_path_copy, fib_path_resolve and
\* fib_path_destroy the user's DPO has one reference for every live
\* Exclusive path, the original and the copy alike, and one for every path
\* that contributes it, on top of the references it had before the first
\* fib_path_create_special; so its count is never below that first value,
\* and is that value again when no path is live.
C32_ExclusiveDpoReferencesBalanced ==
    /\ ex_locks >= 1
    /\ ex_locks = 1 + Cardinality(LiveExclusive) + Cardinality(LiveContributing)

\* C33: (the claim as stated) fib_path_destroy of a live AttachedNextHop or
\* Attached path that fib_path_resolve was never called on makes no
\* adj_child_remove and no adj_unlock call: no call is made on an adjacency
\* index that names nothing, and the lock counts and child lists of all
\* adjacencies are as they were.
C33_UnresolvedDestroyReleasesNothing ==
    \A pi \in PathIds :
        (/\ Live(pi)
         /\ pool[pi].fp_type \in AttachedKinds
         /\ resolves[pi] = 0)
        => LET d == fib_path_destroy(World, pi)
           IN  /\ ~d.bad
               /\ d.adj_locks = adj_locks
               /\ d.adj_children = adj_children
               /\ d.free[pi]

\* the calls of fib_path_recursive_loop_detect: the entries visited so far
\* and the answer of the via-entry
LoopDetectCalls == (SUBSET EntryIds) \X BOOLEAN

\* C34: (the claim as stated) a live Recursive path with RECURSIVE_LOOP set
\* contributes the drop DPO of its nh_proto, however the loop was found; and
\* when fib_path_recursive_loop_detect clears RECURSIVE_LOOP, the path is
\* not resolved while its DPO is still that drop.
C34_LoopedPathContributesDrop ==
    \A pi \in PathIds :
        (Live(pi) /\ pool[pi].fp_type = "RECURSIVE")
        => /\ fib_path_is_looped(pool[pi]) => pool[pi].fp_dpo = DropOf(pool[pi])
           /\ (fib_path_is_looped(pool[pi]) /\ CanLoopDetect(World, pi))
              => \A call \in LoopDetectCalls :
                     LET w2 == fib_path_recursive_loop_detect(World, pi, call[1], call[2])
                     IN  ~fib_path_is_looped(w2.pool[pi])
                         => ~(/\ fib_path_is_resolved(w2.pool[pi])
                              /\ w2.pool[pi].fp_dpo = DropOf(pool[pi]))

\* C34: (amended) a live Recursive path with RECURSIVE_LOOP set is not
\* resolved.  fib_path_recursive_loop_detect on a Recursive path that is not
\* a permanent drop puts the drop DPO in place only when via_fib is among the
\* visited entries; when the via-entry reports the loop it sets the flag and
\* leaves the DPO as it was; when there is no loop it clears the flag and
\* leaves the DPO and RESOLVED as they were, so that the path is resolved
\* exactly if RESOLVED is set and the DPO, the drop included, is valid.
C34_LoopDetectSubstitutesDropOnlyWhenDirect ==
    \A pi \in PathIds :
        (Live(pi) /\ pool[pi].fp_type = "RECURSIVE")
        => /\ fib_path_is_looped(pool[pi]) => ~fib_path_is_resolved(pool[pi])
           /\ (CanLoopDetect(World, pi) /\ ~fib_path_is_permanent_drop(pool[pi]))
              => \A call \in LoopDetectCalls :
                     LET w2 == fib_path_recursive_loop_detect(World, pi, call[1], call[2])
                         after == w2.pool[pi]
                     IN  /\ after.fp_oper_flags \ {"RECURSIVE_LOOP"}
                                = pool[pi].fp_oper_flags \ {"RECURSIVE_LOOP"}
                         /\ fib_path_is_looped(after)
                                = (pool[pi].fp_via_fib \in call[1] \/ call[2])
                         /\ after.fp_dpo = IF pool[pi].fp_via_fib \in call[1]
                                           THEN DropOf(pool[pi])
                                           ELSE pool[pi].fp_dpo
                         /\ fib_path_is_resolved(after)
                                = (/\ ~fib_path_is_looped(after)
                                   /\ "RESOLVED" \in pool[pi].fp_oper_flags
                                   /\ dpo_id_is_valid(after.fp_dpo))

\* C34 witness: a loop found directly has been cleared by a later detection,
\* and the path is resolved with the drop DPO still in place
C34_Witness ==
    \E pi \in PathIds :
        /\ Live(pi)
        /\ pool[pi].fp_type = "RECURSIVE"
        /\ resolves[pi] > 0
        /\ ~fib_path_is_looped(pool[pi])
        /\ fib_path_is_resolved(pool[pi])
        /\ pool[pi].fp_dpo = DropOf(pool[pi])
        /\ pool[pi].fp_via_fib \in EntryIds

\* the chain types fib_path_contribute_forwarding can be called with on the
\* path: a Recursive path asked for another chain than its own reads its
\* via-entry
ContributeCalls(pi) ==
    {fct \in ChainTypes :
        /\ CanContribute(World, pi, fct)
        /\ (/\ pool[pi].fp_type = "RECURSIVE"
            /\ fib_path_proto_to_chain_type(pool[pi].fp_nh_proto) # fct)
           => pool[pi].fp_via_fib \in EntryIds}

\* the path after each of the three contribution calls
ContributionResults(pi) ==
    {fib_path_contribute_forwarding(World, pi, fct).w.pool[pi] : fct \in ContributeCalls(pi)}
    \cup {fib_path_append_nh_for_multipath_hash(World, pi, fct, <<>>).w.pool[pi] :
              fct \in {f \in ChainTypes : CanContribute(World, pi, f)}}
    \cup {fib_path_contribute_urpf(World, pi, <<>>).w.pool[pi]}

\* a Recursive path asked for a chain type other than its own
AsksViaEntry(pi, fct) ==
    /\ pool[pi].fp_type = "RECURSIVE"
    /\ fib_path_proto_to_chain_type(pool[pi].fp_nh_proto) # fct

\* C35: (the claim as stated) fib_path_contribute_forwarding,
\* fib_path_contribute_urpf and fib_path_append_nh_for_multipath_hash leave
\* the path's oper flags, via_fib, contributed DPO and sibling token as they
\* were, for every type and chain type, so is_resolved is the same before
\* and after; and for a path that is not resolved the last two leave the
\* caller's list as it was.
C35_ContributionsAreQueries ==
    \A pi \in PathIds :
        Live(pi) =>
            /\ \A after \in ContributionResults(pi) :
                   /\ after.fp_oper_flags = pool[pi].fp_oper_flags
                   /\ after.fp_via_fib = pool[pi].fp_via_fib
                   /\ after.fp_dpo = pool[pi].fp_dpo
                   /\ after.fp_sibling = pool[pi].fp_sibling
                   /\ fib_path_is_resolved(after) = fib_path_is_resolved(pool[pi])
            /\ ~fib_path_is_resolved(pool[pi])
               => /\ fib_path_contribute_urpf(World, pi, <<>>).urpf = <<>>
                  /\ \A fct \in ChainTypes :
                         CanContribute(World, pi, fct) =>
                             fib_path_append_nh_for_multipath_hash(
                                 World, pi, fct, <<>>).hash_key = <<>>

\* C35: (amended) fib_path_contribute_urpf changes nothing of the state.
\* fib_path_contribute_forwarding and
\* fib_path_append_nh_for_multipath_hash leave the path's via_fib,
\* contributed DPO, sibling token and every oper flag but RESOLVED as they
\* were; RESOLVED too, unless the path is Recursive and the chain type is
\* not its own: then RESOLVED is set afterwards exactly if RECURSIVE_LOOP is
\* clear and the recursion constraints hold of the via-entry, whatever it
\* was before.  For a path that is not resolved fib_path_contribute_urpf
\* and fib_path_append_nh_for_multipath_hash leave the caller's list and
\* the state as they were.
C35_ContributionsRecomputeResolved ==
    \A pi \in PathIds :
        Live(pi) =>
            /\ fib_path_contribute_urpf(World, pi, <<>>).w = World
            /\ \A after \in ContributionResults(pi) :
                   /\ after.fp_oper_flags \ {"RESOLVED"} = pool[pi].fp_oper_flags \ {"RESOLVED"}
                   /\ after.fp_via_fib = pool[pi].fp_via_fib
                   /\ after.fp_dpo = pool[pi].fp_dpo
                   /\ after.fp_sibling = pool[pi].fp_sibling
            /\ \A fct \in ContributeCalls(pi) :
                   LET after == fib_path_contribute_forwarding(World, pi, fct).w.pool[pi]
                   IN  IF AsksViaEntry(pi, fct)
                       THEN ("RESOLVED" \in after.fp_oper_flags)
                                = (/\ ~fib_path_is_looped(pool[pi])
                                   /\ ConstraintsMet(World, pool[pi], pool[pi].fp_via_fib))
                       ELSE after.fp_oper_flags = pool[pi].fp_oper_flags
            /\ \A fct \in ChainTypes :
                   CanContribute(World, pi, fct) =>
                       LET r == fib_path_append_nh_for_multipath_hash(World, pi, fct, <<>>)
                       IN  IF ~fib_path_is_resolved(pool[pi])
                           THEN r.hash_key = <<>> /\ r.w = World
                           ELSE /\ Len(r.hash_key) = 1
                                /\ AsksViaEntry(pi, fct) =>
                                       ("RESOLVED" \in r.w.pool[pi].fp_oper_flags)
                                           = ConstraintsMet(World, pool[pi], pool[pi].fp_via_fib)
                                /\ ~AsksViaEntry(pi, fct) =>
                                       r.w.pool[pi].fp_oper_flags = pool[pi].fp_oper_flags
            /\ ~fib_path_is_resolved(pool[pi])
               => fib_path_contribute_urpf(World, pi, <<>>).urpf = <<>>
            /\ (fib_path_is_resolved(pool[pi]) /\ pool[pi].fp_type \in AttachedKinds)
               => fib_path_contribute_urpf(World, pi, <<>>).urpf
                      = <<[itf |-> pool[pi].fp_interface]>>

\* C35 witness: a contribution for another chain type found the recursion
\* constraint no longer met and cleared RESOLVED, leaving the via-entry's
\* forwarding in place as the path's DPO
C35_Witness ==
    \E pi \in PathIds :
        /\ Live(pi)
        /\ pool[pi].fp_type = "RECURSIVE"
        /\ resolves[pi] > 0
        /\ pool[pi].fp_via_fib \in EntryIds
        /\ "RESOLVED" \notin pool[pi].fp_oper_flags
        /\ ~fib_path_is_looped(pool[pi])
        /\ pool[pi].fp_dpo.type = "LOAD_BALANCE"
        /\ ~ConstraintsMet(World, pool[pi], pool[pi].fp_via_fib)

\* C36: when fib_path_unresolve or fib_path_destroy acts on a Recursive path
\* that pins a via-entry, the path's registration leaves the via-entry's
\* child list first, with the RR source and fp_via_fib still in place; the
\* RR source is removed next, with fp_via_fib still in place; fp_via_fib
\* becomes INVALID last.  In no state on the way is the RR source gone while
\* the path is still registered, and the calls end in the state that
\* fib_path_unresolve and fib_path_destroy return.
C36_ChildRemovedBeforeSource ==
    \A pi \in PathIds :
        (/\ Live(pi)
         /\ pool[pi].fp_type = "RECURSIVE"
         /\ ~fib_path_is_permanent_drop(pool[pi])
         /\ pool[pi].fp_via_fib # INVALID)
        => LET e == pool[pi].fp_via_fib
               reg == <<pool[pi].fp_sibling, pi>>
               steps == fib_path_unresolve_steps(World, pi)
               done == ClearOper(SetFpDpo(steps[4], pi, DPO_INVALID), pi, "RESOLVED")
           IN  /\ e \in EntryIds
               /\ reg \in fe_children[e]
               /\ fe_rr[e] > 0
               /\ steps[1] = World
               /\ reg \notin steps[2].fe_children[e]
               /\ steps[2].fe_rr = fe_rr
               /\ steps[2].pool[pi].fp_via_fib = e
               /\ steps[3].fe_rr[e] = fe_rr[e] - 1
               /\ steps[3].fe_children = steps[2].fe_children
               /\ steps[3].pool[pi].fp_via_fib = e
               /\ steps[4].pool[pi].fp_via_fib = INVALID
               /\ steps[4].fe_rr = steps[3].fe_rr
               /\ steps[4].fe_children = steps[3].fe_children
               /\ \A i \in 1 .. 4 :
                      /\ ~steps[i].bad
                      /\ steps[i].fe_rr[e] < fe_rr[e] => reg \notin steps[i].fe_children[e]
                      /\ steps[i].pool[pi].fp_via_fib = INVALID
                             => (reg \notin steps[i].fe_children[e]
                                 /\ steps[i].fe_rr[e] = fe_rr[e] - 1)
               /\ fib_path_unresolve(World, pi) = done
               /\ fib_path_destroy(World, pi) = [done EXCEPT !.free[pi] = TRUE]

\* C36 witness: a Recursive path that pinned a via-entry has been destroyed,
\* and the entry it pinned has neither its RR source nor a child left
C36_Witness ==
    \E pi \in PathIds :
        /\ pool_free[pi]
        /\ resolves[pi] > 0
        /\ pool[pi].fp_type = "RECURSIVE"
        /\ ~fib_path_is_permanent_drop(pool[pi])
        /\ pool[pi].fp_via_fib = INVALID
        /\ fe_rr[ViaEntryOf(pool[pi])] = 0
        /\ fe_children[ViaEntryOf(pool[pi])] = {}

====
